---- MODULE Spec2Model ----
(***************************************************************************)
(* CardSearchIndex (indexed card search) and DeckGenerator (constrained    *)
(* deck sampler) of the Scryfall query generator, as state machines.       *)
(*                                                                         *)
(* Representation of JavaScript values:                                    *)
(*   - an object is a record; an absent (undefined) property is a key that *)
(*     is not in the record's DOMAIN;                                      *)
(*   - a string that the code splits, tokenizes or prints character by     *)
(*     character (names, rules text, artist, colour strings, export lines) *)
(*     is a sequence of one-character strings; every other string is a     *)
(*     TLA+ string;                                                        *)
(*   - a Set is a sequence without repetition (insertion order), a Map     *)
(*     from values to Sets is a function;                                  *)
(*   - the Map `cards` is its key order plus a function from key to record.*)
(***************************************************************************)
EXTENDS Integers, Sequences, FiniteSets, TLC

VARIABLES
  cards,          \* CardSearchIndex.cards      : [keys: Seq(id), at: id -> card]
  textIndex,      \* CardSearchIndex.textIndex  : token -> Set of ids
  fieldIndices,   \* CardSearchIndex.fieldIndices: field -> (value -> Set of ids)
  built,          \* the array handed to the last buildIndex (<<>> after clear)
  discarded,      \* whether the last buildIndex or clear dropped an indexed card
  lastQuery,      \* the query of the last search call
  lastResult,     \* what that call returned (an array of card records)
  called,         \* which operation of the index ran last
  pc,             \* where the running DeckGenerator call stands
  gen,            \* the frame of that call
  returned,       \* the deck object the call returned (empty before)
  exported,       \* what exportDeck(returned, 'text') gave
  multi,          \* the frame of a running generateMultiple call (<<>> without one)
  generatedQueries, \* RandomQueryGenerator.generatedQueries (a Set of strings)
  issued,         \* what generate() returned since the last reset, in order
  stream,         \* the frame of the streamProcess call (its pc, arguments and i)
  normalizedCards, \* CardNormalizer.normalizedCards : id -> normalized card
  oracleIndex,    \* CardNormalizer.oracleIndex : oracle_id -> array of normalized cards
  taskQueue,      \* the tasks the event loop has queued, oldest first
  batches,        \* the arguments of the onBatch calls, in order
  sched           \* tasks queued and run so far, and both numbers at each batch

idxVars == <<cards, textIndex, fieldIndices, built, discarded>>
rqgVars == <<generatedQueries, issued>>
streamVars == <<stream, normalizedCards, oracleIndex, taskQueue, batches, sched>>

----------------------------------------------------------------------------
(* Bounds of the model *)

\* longest card array handed to buildIndex
MaxCards == 2

\* the largest deckSize, maxCopies and land bound of the sized constraints
MaxDeckSize == 2
MaxCopies == 2
MaxLands == 1

\* the largest count generateMultiple is called with
MaxCount == 2

\* RandomQueryGenerator: the maxRetries option, the most filters one random
\* query draws, and the most queries issued between two resets
MaxRetries == 2
MaxFilters == 3
MaxIssued == 3

\* CardNormalizer.streamProcess: the longest card array, the largest batch
\* size, and the most tasks other code queues on the event loop
MaxStream == 3
MaxBatchSize == 2
MaxTasks == 2

----------------------------------------------------------------------------
(* JavaScript helpers *)

Range(s) == {s[i] : i \in DOMAIN s}

Has(obj, key) == key \in DOMAIN obj

Min(a, b) == IF a < b THEN a ELSE b

\* Set.prototype.add on an insertion-ordered Set
SetAdd(s, x) == IF x \in Range(s) THEN s ELSE Append(s, x)

\* an empty Map
EmptyMap == [v \in {} |-> <<>>]

\* String.prototype.toLowerCase on the characters the model uses
LowerChar(c) ==
  CASE c = "A" -> "a" [] c = "B" -> "b" [] c = "C" -> "c" [] c = "D" -> "d"
    [] c = "F" -> "f" [] c = "G" -> "g" [] c = "I" -> "i" [] c = "L" -> "l"
    [] c = "M" -> "m" [] c = "O" -> "o" [] c = "R" -> "r" [] c = "S" -> "s"
    [] c = "U" -> "u" [] c = "W" -> "w"
    [] OTHER -> c

\* toLowerCase of a string held as characters
LowerSeq(s) == [i \in DOMAIN s |-> LowerChar(s[i])]

\* toLowerCase of a string held whole
toLowerCase(s) ==
  CASE s = "Creature" -> "creature" [] s = "Land" -> "land"
    [] s = "Instant" -> "instant"   [] s = "Imp" -> "imp"
    [] s = "Legendary" -> "legendary" [] s = "Basic" -> "basic"
    [] s = "Flying" -> "flying"     [] s = "Haste" -> "haste"
    [] s = "Rare" -> "rare"         [] s = "RARE" -> "rare"
    [] s = "Common" -> "common"     [] s = "Mythic" -> "mythic"
    [] s = "M21" -> "m21"           [] s = "ZNR" -> "znr"
    [] s = "Commander" -> "commander" [] s = "Standard" -> "standard"
    [] s = "ELD" -> "eld"           [] s = "XXX" -> "xxx"
    [] OTHER -> s

WordChars == {"a", "b", "c", "d", "e", "f", "g", "i", "k", "l", "m", "n", "o",
              "p", "r", "s", "t", "u", "w", "x", "y", "0", "1", "2", "_",
              "A", "B", "C", "D", "F", "G", "I", "L", "M", "O", "R", "S", "U", "W"}

\* the regular expression [^\w\s+/-] : the characters tokenize turns into a space
IsStripped(c) == c \notin WordChars \cup {" ", "+", "/", "-"}

\* text.split(/\s+/) followed by filter(token => token.length > 1), on a
\* string whose separators are single spaces after the replace
RECURSIVE SplitWords(_, _)
SplitWords(s, cur) ==
  IF s = <<>> THEN (IF Len(cur) > 1 THEN <<cur>> ELSE <<>>)
  ELSE IF Head(s) = " "
       THEN (IF Len(cur) > 1 THEN <<cur>> ELSE <<>>) \o SplitWords(Tail(s), <<>>)
       ELSE SplitWords(Tail(s), Append(cur, Head(s)))

\* CardSearchIndex.tokenize
tokenize(text) ==
  LET lowered  == LowerSeq(text)
      replaced == [i \in DOMAIN lowered |->
                     IF IsStripped(lowered[i]) THEN " " ELSE lowered[i]]
  IN  SplitWords(replaced, <<>>)

\* Number.prototype.toString on the numbers the model uses
NumToString(n) ==
  CASE n = 0 -> "0" [] n = 1 -> "1" [] n = 2 -> "2" [] n = 3 -> "3"
    [] n = 4 -> "4" [] n = 5 -> "5" [] n = 6 -> "6" [] OTHER -> "7"

\* isNaN(parseFloat(s)) for a power/toughness string
IsNumeric(s) == s \in {"0", "1", "2", "3", "4", "5", "6"}

\* parseFloat(s) of a numeric string
parseFloat(s) ==
  CASE s = "0" -> 0 [] s = "1" -> 1 [] s = "2" -> 2 [] s = "3" -> 3
    [] s = "4" -> 4 [] s = "5" -> 5 [] OTHER -> 6

----------------------------------------------------------------------------
(* The card corpus: normalized card records as CardNormalizer.normalizeCard *)
(* lays them out (id unique per printing, oracle_id per functional card).  *)

SkyImp ==
  [id |-> 1, oracle_id |-> "o1", name |-> <<"S", "k", "y", " ", "I", "m", "p">>,
   type_line |-> <<"Creature", "Imp">>,
   parsed_types |-> [supertypes |-> <<>>, types |-> <<"creature">>, subtypes |-> <<"imp">>],
   colors |-> <<"R">>, color_identity |-> <<"R">>, rarity |-> "common", set |-> "M21",
   keywords |-> <<"flying">>, legal_formats |-> [commander |-> TRUE, standard |-> TRUE],
   artist |-> <<"A", "l">>, cmc |-> 2, power |-> "2", toughness |-> "1",
   full_oracle_text |-> <<"F", "l", "y", "i", "n", "g">>, released_at |-> 3]

Opt ==
  [id |-> 2, oracle_id |-> "o2", name |-> <<"O", "p", "t">>,
   type_line |-> <<"Instant">>,
   parsed_types |-> [supertypes |-> <<>>, types |-> <<"instant">>, subtypes |-> <<>>],
   colors |-> <<"U">>, color_identity |-> <<"U">>, rarity |-> "uncommon", set |-> "M21",
   keywords |-> <<>>, legal_formats |-> [commander |-> TRUE, standard |-> FALSE],
   artist |-> <<"B", "o">>, cmc |-> 1,
   full_oracle_text |-> <<"D", "r", "a", "w", " ", "a", " ", "c", "a", "r", "d", ".">>,
   released_at |-> 1]

Moor ==
  [id |-> 3, oracle_id |-> "o3", name |-> <<"M", "o", "o", "r">>,
   type_line |-> <<"Basic", "Land">>,
   parsed_types |-> [supertypes |-> <<"basic">>, types |-> <<"land">>, subtypes |-> <<>>],
   colors |-> <<>>, color_identity |-> <<>>, rarity |-> "common", set |-> "ZNR",
   keywords |-> <<>>, legal_formats |-> [commander |-> TRUE, standard |-> TRUE],
   artist |-> <<"A", "l">>, cmc |-> 0, full_oracle_text |-> <<>>, released_at |-> 2]

ImpLord ==
  [id |-> 4, oracle_id |-> "o4", name |-> <<"I", "m", "p", " ", "L", "o", "r", "d">>,
   type_line |-> <<"Legendary", "Creature", "Imp">>,
   parsed_types |-> [supertypes |-> <<"legendary">>, types |-> <<"creature">>,
                     subtypes |-> <<"imp">>],
   colors |-> <<"U", "R">>, color_identity |-> <<"U", "R">>, rarity |-> "mythic",
   set |-> "ZNR", keywords |-> <<"flying", "haste">>,
   legal_formats |-> [commander |-> TRUE],
   artist |-> <<"B", "o">>, cmc |-> 6, power |-> "*", toughness |-> "2",
   full_oracle_text |-> <<"F", "l", "y", "i", "n", "g", ",", " ", "o", "r", " ", "d", "r", "a", "w">>,
   released_at |-> 2]

OxDen ==
  [id |-> 5, oracle_id |-> "o5", name |-> <<"O", "x", " ", "D", "e", "n">>,
   type_line |-> <<"Land">>,
   parsed_types |-> [supertypes |-> <<>>, types |-> <<"land">>, subtypes |-> <<>>],
   colors |-> <<>>, color_identity |-> <<"G">>, rarity |-> "rare", set |-> "M21",
   keywords |-> <<>>, legal_formats |-> [commander |-> TRUE, standard |-> TRUE],
   cmc |-> 0, full_oracle_text |-> <<>>, released_at |-> 1]

\* a second printing of Sky Imp: same oracle id and name, another id and set
SkyImpPromo ==
  [id |-> 6, oracle_id |-> "o1", name |-> <<"S", "k", "y", " ", "I", "m", "p">>,
   type_line |-> <<"Creature", "Imp">>,
   parsed_types |-> [supertypes |-> <<>>, types |-> <<"creature">>, subtypes |-> <<"imp">>],
   colors |-> <<"R">>, color_identity |-> <<"R">>, rarity |-> "special", set |-> "ZNR",
   keywords |-> <<"flying">>, legal_formats |-> [commander |-> TRUE, standard |-> FALSE],
   artist |-> <<"B", "o">>, cmc |-> 2, power |-> "2", toughness |-> "1",
   oracle_text |-> <<"F", "l", "y", "i", "n", "g">>, released_at |-> 4]

Corpus == {SkyImp, Opt, Moor, ImpLord, OxDen, SkyImpPromo}

\* a basic land with a colour identity, in a set of its own
Isle ==
  [id |-> 7, oracle_id |-> "o7", name |-> <<"I", "s", "l", "e">>,
   type_line |-> <<"Basic", "Land">>,
   parsed_types |-> [supertypes |-> <<"basic">>, types |-> <<"land">>, subtypes |-> <<>>],
   colors |-> <<>>, color_identity |-> <<"U">>, rarity |-> "common", set |-> "ELD",
   keywords |-> <<>>, legal_formats |-> [commander |-> TRUE, standard |-> TRUE],
   artist |-> <<"A", "l">>, cmc |-> 0, full_oracle_text |-> <<>>, released_at |-> 2]

\* the arrays buildIndex is called with
RECURSIVE SeqsUpTo(_, _)
SeqsUpTo(S, n) ==
  IF n = 0 THEN {<<>>}
  ELSE LET shorter == SeqsUpTo(S, n - 1)
       IN  shorter \cup {Append(s, x) : s \in {t \in shorter : Len(t) = n - 1}, x \in S}

CardArrays == SeqsUpTo(Corpus, MaxCards)

----------------------------------------------------------------------------
(* CardSearchIndex: building *)

FieldNames == {"name", "type", "supertype", "subtype", "color", "colorIdentity",
               "rarity", "set", "keyword", "format", "artist", "manaValue",
               "power", "toughness"}

\* the index as one value: what the constructor and clear() leave
EmptyIndex ==
  [cards |-> [keys |-> <<>>, at |-> EmptyMap],
   textIndex |-> EmptyMap,
   fieldIndices |-> [f \in FieldNames |-> EmptyMap]]

\* posting map with cardId added under value
MapAdd(m, value, cardId) ==
  IF value \in DOMAIN m
  THEN [m EXCEPT ![value] = SetAdd(@, cardId)]
  ELSE m @@ (value :> <<cardId>>)

\* CardSearchIndex.addToFieldIndex
addToFieldIndex(idx, field, value, cardId) ==
  [idx EXCEPT !.fieldIndices[field] = MapAdd(@, value, cardId)]

\* addToFieldIndex for each element of values, in order, after conv
RECURSIVE AddAll(_, _, _, _)
AddAll(idx, field, values, cardId) ==
  IF values = <<>> THEN idx
  ELSE AddAll(addToFieldIndex(idx, field, Head(values), cardId), field, Tail(values), cardId)

\* CardSearchIndex.indexTokens
indexTokens(idx, text, field, cardId) ==
  IF text = <<>> THEN idx ELSE AddAll(idx, field, tokenize(text), cardId)

RECURSIVE AddText(_, _, _)
AddText(tIdx, tokens, cardId) ==
  IF tokens = <<>> THEN tIdx
  ELSE AddText(MapAdd(tIdx, Head(tokens), cardId), Tail(tokens), cardId)

\* CardSearchIndex.indexFullText
indexFullText(idx, text, cardId) ==
  IF text = <<>> THEN idx
  ELSE [idx EXCEPT !.textIndex = AddText(@, tokenize(text), cardId)]

\* the colour letters indexed for a card: 'c' for none, else each lower-cased
ColorKeys(letters) ==
  IF Len(letters) = 0 THEN <<"c">> ELSE [i \in DOMAIN letters |-> LowerChar(letters[i])]

\* card.full_oracle_text || card.oracle_text  (a missing or empty text is falsy)
OracleTextOf(card) ==
  IF Has(card, "full_oracle_text") /\ card.full_oracle_text # <<>>
  THEN card.full_oracle_text
  ELSE IF Has(card, "oracle_text") THEN card.oracle_text ELSE <<>>

\* every format the legality map lists, legal or not
LegalFormatKeys_Printed(card) ==
  IF ~Has(card, "legal_formats") THEN <<>>
  ELSE LET lf == card.legal_formats
       IN  (IF Has(lf, "commander") THEN <<"commander">> ELSE <<>>)
           \o (IF Has(lf, "standard") THEN <<"standard">> ELSE <<>>)

\* the formats a card is legal in: Object.entries(legal_formats) with isLegal
LegalFormatKeys(card) ==
  IF ~Has(card, "legal_formats") THEN <<>>
  ELSE LET lf == card.legal_formats
       IN  (IF Has(lf, "commander") /\ lf.commander THEN <<"commander">> ELSE <<>>)
           \o (IF Has(lf, "standard") /\ lf.standard THEN <<"standard">> ELSE <<>>)

\* CardSearchIndex.indexCard
indexCard(idx, card) ==
  LET id == card.id
      Store(s) == [s EXCEPT !.cards =
                     [keys |-> SetAdd(@.keys, id),
                      at   |-> IF id \in DOMAIN @.at THEN [@.at EXCEPT ![id] = card]
                               ELSE @.at @@ (id :> card)]]
      Name(s) == indexTokens(s, card.name, "name", id)
      Types(s) ==
        AddAll(AddAll(AddAll(s, "type", card.parsed_types.types, id),
                      "supertype", card.parsed_types.supertypes, id),
               "subtype", card.parsed_types.subtypes, id)
      Colors(s) ==
        AddAll(AddAll(s, "color", ColorKeys(card.colors), id),
               "colorIdentity", ColorKeys(card.color_identity), id)
      Rarity(s) == IF Has(card, "rarity") THEN addToFieldIndex(s, "rarity", card.rarity, id)
                   ELSE s
      SetCode(s) == IF Has(card, "set")
                    THEN addToFieldIndex(s, "set", toLowerCase(card.set), id) ELSE s
      Keywords(s) ==
        AddAll(s, "keyword", [i \in DOMAIN card.keywords |-> toLowerCase(card.keywords[i])],
               id)
      Formats(s) == AddAll(s, "format", LegalFormatKeys(card), id)
      Artist(s) == IF Has(card, "artist")
                   THEN addToFieldIndex(s, "artist", LowerSeq(card.artist), id) ELSE s
      ManaValue(s) == IF Has(card, "cmc")
                      THEN addToFieldIndex(s, "manaValue", NumToString(card.cmc), id) ELSE s
      Power(s) == IF Has(card, "power") THEN addToFieldIndex(s, "power", card.power, id)
                  ELSE s
      Toughness(s) == IF Has(card, "toughness")
                      THEN addToFieldIndex(s, "toughness", card.toughness, id) ELSE s
  IN  indexFullText(
        Toughness(Power(ManaValue(Artist(Formats(Keywords(SetCode(Rarity(Colors(Types(
          Name(Store(idx)))))))))))),
        OracleTextOf(card), id)

\* the loop of buildIndex over the array, from the state idx (the test on
\* next always holds, indexCard having stored the card: it makes the
\* evaluation finish one card before it starts the following one)
RECURSIVE IndexAll(_, _)
IndexAll(idx, arr) ==
  IF arr = <<>> THEN idx
  ELSE LET next == indexCard(idx, Head(arr))
       IN  IF Len(next.cards.keys) > 0 THEN IndexAll(next, Tail(arr)) ELSE next

\* CardSearchIndex.clear: what it leaves of the index idx
clear(idx) ==
  [cards |-> [keys |-> <<>>, at |-> EmptyMap],
   textIndex |-> EmptyMap,
   fieldIndices |-> [f \in DOMAIN idx.fieldIndices |-> EmptyMap]]

\* buildIndex without the call of clear
buildIndex_NoClear(idx, arr) == IndexAll(idx, arr)

\* CardSearchIndex.buildIndex: clear, then index every card of the array
buildIndex(idx, arr) == IndexAll(clear(idx), arr)

----------------------------------------------------------------------------
(* CardSearchIndex: set operations *)

\* CardSearchIndex.intersect
intersect(setA, setB) == SelectSeq(setA, LAMBDA x : x \in Range(setB))

\* CardSearchIndex.union
union(setA, setB) == setA \o SelectSeq(setB, LAMBDA x : x \notin Range(setA))

\* CardSearchIndex.setsEqual
setsEqual(setA, setB) ==
  IF Cardinality(setA) # Cardinality(setB) THEN FALSE
  ELSE \A item \in setA : item \in setB

\* CardSearchIndex.isSubset
isSubset(setA, setB) == \A item \in setA : item \in setB

\* isProperSubset without the size test
isProperSubset_Loose(setA, setB) == isSubset(setA, setB)

\* CardSearchIndex.isProperSubset
isProperSubset(setA, setB) ==
  isSubset(setA, setB) /\ Cardinality(setA) < Cardinality(setB)

----------------------------------------------------------------------------
(* CardSearchIndex: the filters of search *)

\* the running resultIds of search: null, or a Set of ids
NullIds == [isNull |-> TRUE, ids |-> <<>>]
SomeIds(s) == [isNull |-> FALSE, ids |-> s]

\* CardSearchIndex.getFieldIds: the posting Set of value, or null
getFieldIds(idx, field, value) ==
  IF value \in DOMAIN idx.fieldIndices[field]
  THEN SomeIds(idx.fieldIndices[field][value])
  ELSE NullIds

\* a || b on two getFieldIds results (a Set is truthy, null is not)
OrElse(a, b) == IF a.isNull THEN b ELSE a

\* String.prototype.includes on strings held as characters
Includes(s, sub) ==
  \E i \in 1..(Len(s) - Len(sub) + 1) : SubSeq(s, i, i + Len(sub) - 1) = sub

\* the loop of searchText over the tokens; acc is resultIds
RECURSIVE TextLoop(_, _, _, _)
TextLoop(idx, tokens, isOr, acc) ==
  IF tokens = <<>> THEN acc
  ELSE LET token == Head(tokens)
           tokenIds == IF token \in DOMAIN idx.textIndex THEN idx.textIndex[token] ELSE <<>>
           next == IF token = <<"o", "r">> \/ token = <<"a", "n", "d">> THEN acc
                   ELSE IF acc.isNull THEN SomeIds(tokenIds)
                   ELSE IF isOr THEN SomeIds(union(acc.ids, tokenIds))
                   ELSE SomeIds(intersect(acc.ids, tokenIds))
       IN  TextLoop(idx, Tail(tokens), isOr, next)

\* searchText taking any token "or" for the operator
searchText_AnyOr(idx, text) ==
  LET tokens == tokenize(text)
      isOr   == <<"o", "r">> \in Range(tokens)
  IN  IF Len(tokens) = 0 THEN <<>>
      ELSE TextLoop(idx, tokens, isOr, NullIds).ids

\* CardSearchIndex.searchText
searchText(idx, text) ==
  LET tokens == tokenize(text)
      isOr   == Includes(LowerSeq(text), <<" ", "o", "r", " ">>)
  IN  IF Len(tokens) = 0 THEN <<>>
      ELSE TextLoop(idx, tokens, isOr, NullIds).ids

\* the loop of searchField over the tokens; acc is resultIds
RECURSIVE FieldLoop(_, _, _, _)
FieldLoop(idx, field, tokens, acc) ==
  IF tokens = <<>> THEN acc
  ELSE LET token == Head(tokens)
           m == idx.fieldIndices[field]
           tokenIds == IF token \in DOMAIN m THEN m[token] ELSE <<>>
           next == IF acc.isNull THEN SomeIds(tokenIds)
                   ELSE SomeIds(intersect(acc.ids, tokenIds))
       IN  FieldLoop(idx, field, Tail(tokens), next)

\* CardSearchIndex.searchField
searchField(idx, field, value) ==
  LET tokens == tokenize(value)
  IN  IF Len(tokens) = 0 THEN <<>>
      ELSE FieldLoop(idx, field, tokens, NullIds).ids

\* the card's colour Set left empty for a colourless card
CardColorSet_EmptyKept(card, field) ==
  LET letters == IF field = "colorIdentity" THEN card.color_identity ELSE card.colors
  IN  {LowerChar(letters[i]) : i \in DOMAIN letters}

\* the card's colour Set in searchColors: lower-cased, {c} when empty
CardColorSet(card, field) ==
  LET letters == IF field = "colorIdentity" THEN card.color_identity ELSE card.colors
      lowered == {LowerChar(letters[i]) : i \in DOMAIN letters}
  IN  IF Cardinality(lowered) = 0 THEN {"c"} ELSE lowered

\* the switch of searchColors
ColorMatches(cardColors, targetColors, operator) ==
  CASE operator = "="  -> setsEqual(cardColors, targetColors)
    [] operator = "<=" -> isSubset(cardColors, targetColors)
    [] operator = ">=" -> isSubset(targetColors, cardColors)
    [] operator = "<"  -> isProperSubset(cardColors, targetColors)
    [] operator = ">"  -> isProperSubset(targetColors, cardColors)
    [] OTHER -> FALSE

\* CardSearchIndex.searchColors
searchColors(idx, colors, operator, field) ==
  LET lowered == LowerSeq(colors)
      targetColors == {lowered[i] : i \in {j \in DOMAIN lowered :
                                            lowered[j] \in {"w", "u", "b", "r", "g", "c"}}}
  IN  SelectSeq(idx.cards.keys, LAMBDA cardId :
        ColorMatches(CardColorSet(idx.cards.at[cardId], field), targetColors, operator))

\* the comparison switch of searchNumeric and searchRarity
NumMatches(cardValue, targetValue, operator) ==
  CASE operator = "="  -> cardValue = targetValue
    [] operator = "<"  -> cardValue < targetValue
    [] operator = ">"  -> cardValue > targetValue
    [] operator = "<=" -> cardValue <= targetValue
    [] operator = ">=" -> cardValue >= targetValue
    [] OTHER -> FALSE

\* isNaN(cardValue) of searchNumeric is false for this card and field
HasNumber(card, field) ==
  CASE field = "manaValue" -> Has(card, "cmc")
    [] field = "power"     -> Has(card, "power") /\ IsNumeric(card.power)
    [] field = "toughness" -> Has(card, "toughness") /\ IsNumeric(card.toughness)
    [] OTHER -> FALSE

\* cardValue of searchNumeric
CardNumber(card, field) ==
  CASE field = "manaValue" -> card.cmc
    [] field = "power"     -> parseFloat(card.power)
    [] OTHER               -> parseFloat(card.toughness)

\* CardSearchIndex.searchNumeric (value is a number, so parseFloat leaves it)
searchNumeric(idx, field, value, operator) ==
  SelectSeq(idx.cards.keys, LAMBDA cardId :
    LET card == idx.cards.at[cardId]
    IN  HasNumber(card, field) /\ NumMatches(CardNumber(card, field), value, operator))

rarityOrder == <<"common", "uncommon", "rare", "mythic">>

\* Array.prototype.indexOf: the 0-based position, -1 when absent
IndexOf(arr, x) ==
  IF x \in Range(arr)
  THEN (CHOOSE i \in DOMAIN arr : arr[i] = x /\ \A j \in 1..(i - 1) : arr[j] # x) - 1
  ELSE -1

\* rarityOrder.indexOf(card.rarity)
RarityRank(card) == IF Has(card, "rarity") THEN IndexOf(rarityOrder, card.rarity) ELSE -1

\* searchRarity without the skip of cards whose rarity is not in rarityOrder
searchRarity_NoSkip(idx, rarity, operator) ==
  LET targetIndex == IndexOf(rarityOrder, toLowerCase(rarity))
  IN  IF targetIndex = -1
      THEN getFieldIds(idx, "rarity", toLowerCase(rarity)).ids
      ELSE SelectSeq(idx.cards.keys, LAMBDA cardId :
             NumMatches(RarityRank(idx.cards.at[cardId]), targetIndex, operator))

\* CardSearchIndex.searchRarity
searchRarity(idx, rarity, operator) ==
  LET targetIndex == IndexOf(rarityOrder, toLowerCase(rarity))
  IN  IF targetIndex = -1
      THEN getFieldIds(idx, "rarity", toLowerCase(rarity)).ids
      ELSE SelectSeq(idx.cards.keys, LAMBDA cardId :
             LET cardIndex == RarityRank(idx.cards.at[cardId])
             IN  cardIndex # -1 /\ NumMatches(cardIndex, targetIndex, operator))

----------------------------------------------------------------------------
(* CardSearchIndex: search *)

\* JavaScript truthiness of a query property, by the kind of value it holds:
\* strings held as characters, strings held whole, string-or-array values
\* ([str |-> s] or [arr |-> a]: an array is truthy even when empty)
TruthyChars(q, f) == Has(q, f) /\ q[f] # <<>>
TruthyString(q, f) == Has(q, f) /\ q[f] # ""
TruthyList(q, f) == Has(q, f) /\ (Has(q[f], "arr") \/ q[f].str # "")

\* Array.isArray(x) ? x : [x]
AsArray(x) == IF Has(x, "arr") THEN x.arr ELSE <<x.str>>

\* query.<op> || '='
OperatorOf(q, f) == IF TruthyString(q, f) THEN q[f] ELSE "="

\* resultIds = resultIds ? this.intersect(resultIds, ids) : ids
Narrow(r, ids) == IF r.isNull THEN SomeIds(ids) ELSE SomeIds(intersect(r.ids, ids))

\* the set, format and keyword filters taking the posting as the result
\* instead of intersecting it into the running result
NarrowByPosting_Overwrite(r, posting) ==
  IF ~posting.isNull THEN SomeIds(posting.ids) ELSE SomeIds(<<>>)

\* the set, format and keyword filters: narrow by a posting, or empty the
\* result when the value has no posting
NarrowByPosting(r, posting) ==
  IF ~posting.isNull THEN Narrow(r, posting.ids) ELSE SomeIds(<<>>)

\* the type loop taking a type without posting for every card of the index
RECURSIVE TypeLoop_Permissive(_, _, _)
TypeLoop_Permissive(idx, types, acc) ==
  IF types = <<>> THEN acc
  ELSE LET t == toLowerCase(Head(types))
           ids == OrElse(getFieldIds(idx, "type", t),
                         OrElse(getFieldIds(idx, "subtype", t),
                                getFieldIds(idx, "supertype", t)))
       IN  TypeLoop_Permissive(idx, Tail(types),
             IF ids.isNull THEN union(acc, idx.cards.keys) ELSE union(acc, ids.ids))

\* the loop of the type filter over the requested types; acc is typeIds
RECURSIVE TypeLoop(_, _, _)
TypeLoop(idx, types, acc) ==
  IF types = <<>> THEN acc
  ELSE LET t == toLowerCase(Head(types))
           ids == OrElse(getFieldIds(idx, "type", t),
                         OrElse(getFieldIds(idx, "subtype", t),
                                getFieldIds(idx, "supertype", t)))
       IN  TypeLoop(idx, Tail(types), IF ids.isNull THEN acc ELSE union(acc, ids.ids))

\* the loop of the keyword filter over the requested keywords
RECURSIVE KeywordLoop(_, _, _)
KeywordLoop(idx, keywords, r) ==
  IF keywords = <<>> THEN r
  ELSE KeywordLoop(idx, Tail(keywords),
         NarrowByPosting(r, getFieldIds(idx, "keyword", toLowerCase(Head(keywords)))))

\* the filters of search, in the order of the code: resultIds after them
FilterIds(idx, query) ==
  LET Text(r) == IF TruthyChars(query, "text")
                 THEN SomeIds(searchText(idx, query.text)) ELSE r
      Name(r) == IF TruthyChars(query, "name")
                 THEN Narrow(r, searchField(idx, "name", query.name)) ELSE r
      Type(r) == IF TruthyList(query, "type")
                 THEN Narrow(r, TypeLoop(idx, AsArray(query.type), <<>>)) ELSE r
      Colors(r) == IF TruthyChars(query, "colors")
                   THEN Narrow(r, searchColors(idx, query.colors,
                                               OperatorOf(query, "colorOperator"), "color"))
                   ELSE r
      ColorIdentity(r) ==
        IF TruthyChars(query, "colorIdentity")
        THEN Narrow(r, searchColors(idx, query.colorIdentity,
                                    OperatorOf(query, "colorIdentityOperator"),
                                    "colorIdentity"))
        ELSE r
      ManaValue(r) == IF Has(query, "manaValue")
                      THEN Narrow(r, searchNumeric(idx, "manaValue", query.manaValue,
                                                   OperatorOf(query, "manaValueOperator")))
                      ELSE r
      Power(r) == IF Has(query, "power")
                  THEN Narrow(r, searchNumeric(idx, "power", query.power,
                                               OperatorOf(query, "powerOperator")))
                  ELSE r
      Toughness(r) == IF Has(query, "toughness")
                      THEN Narrow(r, searchNumeric(idx, "toughness", query.toughness,
                                                   OperatorOf(query, "toughnessOperator")))
                      ELSE r
      Rarity(r) == IF TruthyString(query, "rarity")
                   THEN Narrow(r, searchRarity(idx, query.rarity,
                                               OperatorOf(query, "rarityOperator")))
                   ELSE r
      SetCode(r) == IF TruthyString(query, "set")
                    THEN NarrowByPosting(r, getFieldIds(idx, "set", toLowerCase(query.set)))
                    ELSE r
      Format(r) == IF TruthyString(query, "format")
                   THEN NarrowByPosting(r, getFieldIds(idx, "format",
                                                       toLowerCase(query.format)))
                   ELSE r
      Keyword(r) == IF TruthyList(query, "keyword")
                    THEN KeywordLoop(idx, AsArray(query.keyword), r) ELSE r
      Artist(r) == IF TruthyChars(query, "artist")
                   THEN Narrow(r, searchField(idx, "artist", LowerSeq(query.artist)))
                   ELSE r
      resultIds ==
        Artist(Keyword(Format(SetCode(Rarity(Toughness(Power(ManaValue(
          ColorIdentity(Colors(Type(Name(Text(NullIds)))))))))))))
  IN  IF resultIds.isNull THEN idx.cards.keys ELSE resultIds.ids

\* Array.from(resultIds).map(id => this.cards.get(id)).filter(Boolean)
Materialize(idx, ids) ==
  LET known == SelectSeq(ids, LAMBDA id : id \in DOMAIN idx.cards.at)
  IN  [i \in DOMAIN known |-> idx.cards.at[known[i]]]

\* collation order of the characters the model uses (space and punctuation
\* before digits before letters; case is a tie-break only)
Collation == <<" ", ",", ".", "-", "0", "1", "2", "a", "b", "c", "d", "e", "f", "g",
               "i", "k", "l", "m", "n", "o", "p", "r", "s", "t", "u", "w", "x", "y">>

CollationRank(c) == IndexOf(Collation, LowerChar(c))

\* 0 for a lower-case character, 1 for an upper-case one
CaseRank(c) == IF LowerChar(c) = c THEN 0 ELSE 1

\* lexicographic comparison of two strings by the character ranks ra, rb
RECURSIVE CompareRanks(_, _)
CompareRanks(ra, rb) ==
  IF ra = <<>> /\ rb = <<>> THEN 0
  ELSE IF ra = <<>> THEN -1
  ELSE IF rb = <<>> THEN 1
  ELSE IF Head(ra) < Head(rb) THEN -1
  ELSE IF Head(ra) > Head(rb) THEN 1
  ELSE CompareRanks(Tail(ra), Tail(rb))

\* String.prototype.localeCompare: -1, 0 or 1
localeCompare(a, b) ==
  LET primary == CompareRanks([i \in DOMAIN a |-> CollationRank(a[i])],
                              [i \in DOMAIN b |-> CollationRank(b[i])])
  IN  IF primary # 0 THEN primary
      ELSE CompareRanks([i \in DOMAIN a |-> CaseRank(a[i])],
                        [i \in DOMAIN b |-> CaseRank(b[i])])

\* the comparator of sortResults
Comparator(a, b, sortBy, multiplier) ==
  CASE sortBy = "name" -> multiplier * localeCompare(a.name, b.name)
    [] sortBy \in {"manaValue", "cmc"} ->
         multiplier * ((IF Has(a, "cmc") THEN a.cmc ELSE 0)
                       - (IF Has(b, "cmc") THEN b.cmc ELSE 0))
    [] sortBy = "rarity" -> multiplier * (RarityRank(a) - RarityRank(b))
    [] sortBy = "released" ->
         multiplier * ((IF Has(a, "released_at") THEN a.released_at ELSE 0)
                       - (IF Has(b, "released_at") THEN b.released_at ELSE 0))
    [] sortBy = "color" -> multiplier * localeCompare(a.colors, b.colors)
    [] OTHER -> 0

\* Array.prototype.sort is stable: x goes behind every element not above it
RECURSIVE InsertSorted(_, _, _, _)
InsertSorted(sorted, x, sortBy, multiplier) ==
  IF sorted = <<>> THEN <<x>>
  ELSE LET last == sorted[Len(sorted)]
       IN  IF Comparator(last, x, sortBy, multiplier) > 0
           THEN Append(InsertSorted(SubSeq(sorted, 1, Len(sorted) - 1), x, sortBy, multiplier),
                       last)
           ELSE Append(sorted, x)

RECURSIVE SortLoop(_, _, _, _)
SortLoop(sorted, rest, sortBy, multiplier) ==
  IF rest = <<>> THEN sorted
  ELSE SortLoop(InsertSorted(sorted, Head(rest), sortBy, multiplier), Tail(rest),
                sortBy, multiplier)

\* CardSearchIndex.sortResults
sortResults(results, sortBy, order) ==
  SortLoop(<<>>, results, sortBy, IF order = "desc" THEN -1 ELSE 1)

\* Array.prototype.slice(start, end) for start, end >= 0
Slice(arr, start, end) == SubSeq(arr, start + 1, Min(end, Len(arr)))

\* the sort step of search
Sorted(results, query) ==
  IF TruthyString(query, "sortBy")
  THEN sortResults(results, query.sortBy,
                   IF TruthyString(query, "sortOrder") THEN query.sortOrder ELSE "asc")
  ELSE results

\* pagination that skips offset records also when the query has no limit
Paginated_OffsetAlone(results, query) ==
  LET offset == IF Has(query, "offset") THEN query.offset ELSE 0
  IN  IF Has(query, "limit") THEN Slice(results, offset, offset + query.limit)
      ELSE Slice(results, offset, Len(results))

\* the pagination step of search (offset || 0: an absent offset is 0)
Paginated(results, query) ==
  IF Has(query, "limit")
  THEN LET offset == IF Has(query, "offset") THEN query.offset ELSE 0
       IN  Slice(results, offset, offset + query.limit)
  ELSE results

\* search paginating before it sorts
search_PageFirst(idx, query) ==
  Sorted(Paginated(Materialize(idx, FilterIds(idx, query)), query), query)

\* CardSearchIndex.search
search(idx, query) ==
  Paginated(Sorted(Materialize(idx, FilterIds(idx, query)), query), query)

----------------------------------------------------------------------------
(* CardSearchIndex: what search writes.  The set, format and keyword       *)
(* filters assign the posting Set of the index itself to resultIds when no *)
(* filter came before; a write through resultIds would then change the     *)
(* index.  The walk below follows what resultIds refers to: nothing yet    *)
(* (isNull), a Set of its own (posting <<>>), or the posting Set of        *)
(* <<field, value>>.                                                       *)

\* intersect changing setA in place: the posting resultIds refers to loses
\* the ids that are not in setB
IndexAfterIntersect_InPlace(idx, posting, setB) ==
  IF posting = <<>> THEN idx
  ELSE [idx EXCEPT !.fieldIndices[posting[1]][posting[2]] = intersect(@, setB)]

\* the index after this.intersect(resultIds, setB): the result is a new Set
\* built from a copy ([...setA].filter), and neither argument is written to
IndexAfterIntersect(idx, posting, setB) == idx

\* one of the filters before the set filter has set resultIds
SetBeforePostings(query) ==
  \/ TruthyChars(query, "text") \/ TruthyChars(query, "name") \/ TruthyList(query, "type")
  \/ TruthyChars(query, "colors") \/ TruthyChars(query, "colorIdentity")
  \/ Has(query, "manaValue") \/ Has(query, "power") \/ Has(query, "toughness")
  \/ TruthyString(query, "rarity")

\* a set, format or keyword block for the value of the field
PostingStep(st, field, value) ==
  LET ids == getFieldIds(st.idx, field, value)
  IN  IF ids.isNull THEN [st EXCEPT !.isNull = FALSE, !.posting = <<>>]
      ELSE IF st.isNull THEN [st EXCEPT !.isNull = FALSE, !.posting = <<field, value>>]
      ELSE [idx |-> IndexAfterIntersect(st.idx, st.posting, ids.ids),
            isNull |-> FALSE, posting |-> <<>>]

RECURSIVE KeywordSteps(_, _)
KeywordSteps(st, keywords) ==
  IF keywords = <<>> THEN st
  ELSE KeywordSteps(PostingStep(st, "keyword", toLowerCase(Head(keywords))), Tail(keywords))

\* the index as search(query) leaves it: the set, format and keyword blocks,
\* and the intersect of the artist filter (Array.from copies resultIds
\* before the sort, which orders the copy)
IndexAfterSearch(idx, query) ==
  LET start == [idx |-> idx, isNull |-> ~SetBeforePostings(query), posting |-> <<>>]
      SetCode(st) == IF TruthyString(query, "set")
                     THEN PostingStep(st, "set", toLowerCase(query.set)) ELSE st
      Format(st) == IF TruthyString(query, "format")
                    THEN PostingStep(st, "format", toLowerCase(query.format)) ELSE st
      Keyword(st) == IF TruthyList(query, "keyword")
                     THEN KeywordSteps(st, AsArray(query.keyword)) ELSE st
      Artist(st) ==
        IF TruthyChars(query, "artist") /\ ~st.isNull
        THEN IndexAfterIntersect(st.idx, st.posting,
                                 searchField(st.idx, "artist", LowerSeq(query.artist)))
        ELSE st.idx
  IN  Artist(Keyword(Format(SetCode(start))))

----------------------------------------------------------------------------
(* The queries search is called with *)

\* a string-or-array query value
Str(s) == [str |-> s]
Arr(a) == [arr |-> a]

\* the query without the properties outside keys
Restrict(q, keys) == [k \in (DOMAIN q) \cap keys |-> q[k]]

\* the query {} (no property at all)
EmptyQuery == [k \in {} |-> ""]

Operators == {"=", "<", ">", "<=", ">="}

\* an operator property: absent, empty, one of the five, or an unknown one
OperatorChoices == {<<>>} \cup {<<op>> : op \in Operators \cup {"", "!="}}

\* the query base with property key set to value, and property opKey set when
\* an operator is chosen
WithFilter(base, key, value, opKey, opChoice) ==
  IF opChoice = <<>> THEN base @@ (key :> value)
  ELSE base @@ (key :> value) @@ (opKey :> opChoice[1])

TypeNames == {"creature", "Creature", "imp", "Imp", "legendary", "Legendary",
              "basic", "land", "Land", "instant", "wizard", ""}

TypeLists == {<<>>, <<"creature", "legendary">>, <<"land", "basic">>,
              <<"Instant", "imp">>, <<"wizard", "land">>}

TypeQueries ==
  {[type |-> Str(x)] : x \in TypeNames} \cup {[type |-> Arr(a)] : a \in TypeLists}

ColorStrings ==
  {<<>>, <<"u">>, <<"r">>, <<"c">>, <<"g">>, <<"R">>, <<"u", "r">>, <<"r", "u">>,
   <<"U", "R">>, <<"r", "r">>, <<"r", "g">>, <<"r", "c">>, <<"u", "r", "g">>,
   <<"w", "u", "b", "r", "g">>, <<"x">>}

ColorQueries ==
  {WithFilter(EmptyQuery, "colors", S, "colorOperator", op) :
     S \in ColorStrings, op \in OperatorChoices}
  \cup
  {WithFilter(EmptyQuery, "colorIdentity", S, "colorIdentityOperator", op) :
     S \in ColorStrings, op \in OperatorChoices}

RarityNames == {"common", "uncommon", "rare", "mythic", "Rare", "RARE", "special",
                "bonus", ""}

RarityQueries ==
  {WithFilter(EmptyQuery, "rarity", r, "rarityOperator", op) :
     r \in RarityNames, op \in OperatorChoices}

\* the properties that make up each filter kind of search
FilterKinds == {"text", "name", "type", "colors", "colorIdentity", "manaValue",
                "power", "toughness", "rarity", "set", "format", "keyword", "artist"}

KeysOf(kind) ==
  CASE kind = "colors"        -> {"colors", "colorOperator"}
    [] kind = "colorIdentity" -> {"colorIdentity", "colorIdentityOperator"}
    [] kind = "manaValue"     -> {"manaValue", "manaValueOperator"}
    [] kind = "power"         -> {"power", "powerOperator"}
    [] kind = "toughness"     -> {"toughness", "toughnessOperator"}
    [] kind = "rarity"        -> {"rarity", "rarityOperator"}
    [] OTHER                  -> {kind}

\* queries that supply every filter kind
FullQueries ==
  {[text |-> <<"F", "l", "y", "i", "n", "g">>, name |-> <<"i", "m", "p">>,
    type |-> Str("Creature"), colors |-> <<"r">>, colorOperator |-> ">=",
    colorIdentity |-> <<"u", "r">>, colorIdentityOperator |-> "<=",
    manaValue |-> 2, manaValueOperator |-> ">=", power |-> 2,
    toughness |-> 2, toughnessOperator |-> "<=", rarity |-> "common",
    rarityOperator |-> ">=", set |-> "ZNR", format |-> "commander",
    keyword |-> Str("flying"), artist |-> <<"B", "o">>],
   [text |-> <<"c", "a", "r", "d", " ", "o", "r", " ", "f", "l", "y", "i", "n", "g">>,
    name |-> <<"S", "k", "y", " ", "i", "m", "p">>,
    type |-> Arr(<<"instant", "imp">>), colors |-> <<"u">>,
    colorIdentity |-> <<"r">>, colorIdentityOperator |-> ">",
    manaValue |-> 1, power |-> 1, powerOperator |-> ">", toughness |-> 1,
    rarity |-> "rare", rarityOperator |-> "<", set |-> "m21", format |-> "standard",
    keyword |-> Arr(<<"Flying", "haste">>), artist |-> <<"a", "l">>],
   [text |-> <<"d", "r", "a", "w">>, name |-> <<"a">>,
    type |-> Str("wizard"), colors |-> <<"c">>, colorOperator |-> "<=",
    colorIdentity |-> <<"g">>, colorIdentityOperator |-> "<",
    manaValue |-> 0, manaValueOperator |-> ">", power |-> 2, powerOperator |-> "<=",
    toughness |-> 1, toughnessOperator |-> ">=", rarity |-> "special",
    set |-> "xyz", format |-> "Commander", keyword |-> Str("ward"),
    artist |-> <<"B", "o", " ", "A", "l">>]}

\* every combination of at most two filter kinds of a full query, and the
\* full queries themselves
CombinedQueries ==
  FullQueries \cup
  {Restrict(full, KeysOf(a) \cup KeysOf(b)) : full \in FullQueries, a \in FilterKinds,
                                               b \in FilterKinds}

\* a query with the chosen sort and pagination properties added
WithPaging(base, sortBy, sortOrder, limit, offset) ==
  base @@ (IF sortBy = <<>> THEN EmptyQuery ELSE [sortBy |-> sortBy[1]])
       @@ (IF sortOrder = <<>> THEN EmptyQuery ELSE [sortOrder |-> sortOrder[1]])
       @@ (IF limit = <<>> THEN EmptyQuery ELSE [limit |-> limit[1]])
       @@ (IF offset = <<>> THEN EmptyQuery ELSE [offset |-> offset[1]])

SortedQueries ==
  {WithPaging(base, sortBy, sortOrder, limit, offset) :
     base \in {EmptyQuery, [type |-> Str("creature")]},
     sortBy \in {<<>>, <<"name">>, <<"cmc">>, <<"rarity">>, <<"color">>, <<"released">>},
     sortOrder \in {<<>>, <<"desc">>},
     limit \in {<<>>, <<0>>, <<1>>, <<2>>},
     offset \in {<<>>, <<1>>, <<2>>}}

\* free text: words to intersect, the words "or" and "and" inside and at
\* the end of the text, a word no card has, punctuation, capitals, a word
\* of one letter
TextQueries ==
  {[text |-> t] : t \in
     {<<"F", "l", "y", "i", "n", "g", " ", "d", "r", "a", "w">>,
      <<"f", "l", "y", "i", "n", "g", " ", "a", "n", "d", " ", "d", "r", "a", "w">>,
      <<"c", "a", "r", "d", " ", "O", "R", " ", "f", "l", "y", "i", "n", "g">>,
      <<"c", "a", "r", "d", " ", "f", "l", "y", "i", "n", "g", " ", "o", "r">>,
      <<"w", "a", "x", " ", "o", "r", " ", "d", "r", "a", "w">>,
      <<"w", "a", "x", " ", "d", "r", "a", "w">>,
      <<"D", "R", "A", "W", ",", " ", "c", "a", "r", "d", ".">>,
      <<"o", "r">>,
      <<"a">>}}

Queries == TypeQueries \cup ColorQueries \cup RarityQueries \cup CombinedQueries
           \cup SortedQueries \cup TextQueries

----------------------------------------------------------------------------
(* DeckGenerator: constraints, validity, categories and statistics.  A    *)
(* constraints object is a record of the properties it has; null and       *)
(* undefined are both the absence of the property.                         *)

\* the copies of a basic land addCardToDeck adds at most in one call
BasicLandBatch == 4

\* this.formatConfigs
formatConfigs ==
  LET sixty == [deckSize |-> 60, maxCopies |-> 4, minLands |-> 20, maxLands |-> 26]
  IN  [standard |-> sixty, modern |-> sixty, pioneer |-> sixty, legacy |-> sixty,
       vintage |-> sixty,
       commander |-> [deckSize |-> 100, maxCopies |-> 1, minLands |-> 35, maxLands |-> 40,
                      hasCommander |-> TRUE],
       brawl |-> [deckSize |-> 60, maxCopies |-> 1, minLands |-> 22, maxLands |-> 26,
                  hasCommander |-> TRUE],
       pauper |-> sixty,
       limited |-> [deckSize |-> 40, maxCopies |-> 99, minLands |-> 16, maxLands |-> 18]]

\* the lookup without the lower-casing of the format name
getFormatConfig_CaseSensitive(format) ==
  IF format \in DOMAIN formatConfigs THEN formatConfigs[format]
  ELSE formatConfigs.standard

\* DeckGenerator.getFormatConfig
getFormatConfig(format) ==
  IF toLowerCase(format) \in DOMAIN formatConfigs
  THEN formatConfigs[toLowerCase(format)]
  ELSE formatConfigs.standard

\* the property key of obj when it has it, else nothing: an optional property
Optional(obj, key) == IF Has(obj, key) THEN key :> obj[key] ELSE EmptyQuery

\* DeckGenerator.getCandidatePool
getCandidatePool(idx, query) == search(idx, query)

\* DeckGenerator.validateConstraints (the properties generation reads; the
\* creature, spell, average and categories properties are copied unread)
validateConstraints(constraints) ==
  LET format == IF TruthyString(constraints, "format") THEN constraints.format
                ELSE "standard"
      formatConfig == getFormatConfig(format)
      OrDefault(key) == IF Has(constraints, key) THEN constraints[key] ELSE formatConfig[key]
  IN  [format |-> format,
       deckSize |-> IF Has(constraints, "deckSize") /\ constraints.deckSize # 0
                    THEN constraints.deckSize ELSE formatConfig.deckSize,
       maxCopies |-> OrDefault("maxCopies"),
       minLands |-> OrDefault("minLands"),
       maxLands |-> OrDefault("maxLands"),
       bannedCards |-> IF Has(constraints, "bannedCards") THEN constraints.bannedCards
                       ELSE <<>>,
       mustInclude |-> IF Has(constraints, "mustInclude") THEN constraints.mustInclude
                       ELSE <<>>]
      @@ (IF Has(constraints, "hasCommander") THEN Optional(constraints, "hasCommander")
          ELSE Optional(formatConfig, "hasCommander"))
      @@ (IF Has(constraints, "commander") /\ constraints.commander # <<>>
          THEN Optional(constraints, "commander") ELSE EmptyQuery)
      @@ (IF Has(constraints, "colorIdentity") /\ constraints.colorIdentity # <<>>
          THEN Optional(constraints, "colorIdentity") ELSE EmptyQuery)
      @@ Optional(constraints, "maxManaValue")

\* map.get(key) || 0, also obj[key] || 0
GetOrZero(map, key) == IF key \in DOMAIN map THEN map[key] ELSE 0

\* map with key set to value
Put(map, key, value) ==
  IF key \in DOMAIN map THEN [map EXCEPT ![key] = value] ELSE map @@ (key :> value)

\* card.type_line?.includes('Basic') && card.type_line?.includes('Land')
\* (the type line is kept as its words)
isBasicLand(card) ==
  Has(card, "type_line") /\ "Basic" \in Range(card.type_line)
    /\ "Land" \in Range(card.type_line)

\* isCardValid with the copy limit applied to basic lands as well
isCardValid_CapsBasics(card, constraints, currentDeck) ==
  IF card.name \in Range(constraints.bannedCards) THEN FALSE
  ELSE IF /\ constraints.format # ""
          /\ Has(card, "legal_formats")
          /\ ~(Has(card.legal_formats, constraints.format)
               /\ card.legal_formats[constraints.format]) THEN FALSE
  ELSE IF /\ Has(constraints, "colorIdentity")
          /\ Has(constraints, "hasCommander") /\ constraints.hasCommander
          /\ \E i \in DOMAIN card.color_identity :
               LET color == LowerChar(card.color_identity[i])
               IN  color \notin {LowerChar(constraints.colorIdentity[j]) :
                                   j \in DOMAIN constraints.colorIdentity}
                   /\ color # "c" THEN FALSE
  ELSE IF GetOrZero(currentDeck.cardCounts, card.name) >= constraints.maxCopies
       THEN FALSE
  ELSE IF Has(constraints, "maxManaValue") /\ card.cmc > constraints.maxManaValue
       THEN FALSE
  ELSE TRUE

\* isCardValid passing a card whose legality map lacks the format
isCardValid_ListedFormatsOnly(card, constraints, currentDeck) ==
  IF card.name \in Range(constraints.bannedCards) THEN FALSE
  ELSE IF /\ constraints.format # ""
          /\ Has(card, "legal_formats")
          /\ Has(card.legal_formats, constraints.format)
          /\ ~card.legal_formats[constraints.format] THEN FALSE
  ELSE IF /\ Has(constraints, "colorIdentity")
          /\ Has(constraints, "hasCommander") /\ constraints.hasCommander
          /\ \E i \in DOMAIN card.color_identity :
               LET color == LowerChar(card.color_identity[i])
               IN  color \notin {LowerChar(constraints.colorIdentity[j]) :
                                   j \in DOMAIN constraints.colorIdentity}
                   /\ color # "c" THEN FALSE
  ELSE IF ~isBasicLand(card)
          /\ GetOrZero(currentDeck.cardCounts, card.name) >= constraints.maxCopies
       THEN FALSE
  ELSE IF Has(constraints, "maxManaValue") /\ card.cmc > constraints.maxManaValue
       THEN FALSE
  ELSE TRUE

\* DeckGenerator.isCardValid
isCardValid(card, constraints, currentDeck) ==
  IF card.name \in Range(constraints.bannedCards) THEN FALSE
  ELSE IF /\ constraints.format # ""
          /\ Has(card, "legal_formats")
          /\ ~(Has(card.legal_formats, constraints.format)
               /\ card.legal_formats[constraints.format]) THEN FALSE
  ELSE IF /\ Has(constraints, "colorIdentity")
          /\ Has(constraints, "hasCommander") /\ constraints.hasCommander
          /\ \E i \in DOMAIN card.color_identity :
               LET color == LowerChar(card.color_identity[i])
               IN  color \notin {LowerChar(constraints.colorIdentity[j]) :
                                   j \in DOMAIN constraints.colorIdentity}
                   /\ color # "c" THEN FALSE
  ELSE IF ~isBasicLand(card)
          /\ GetOrZero(currentDeck.cardCounts, card.name) >= constraints.maxCopies
       THEN FALSE
  ELSE IF Has(constraints, "maxManaValue") /\ card.cmc > constraints.maxManaValue
       THEN FALSE
  ELSE TRUE

\* DeckGenerator.categorizeCard
categorizeCard(card) ==
  LET types == IF Has(card, "parsed_types") THEN Range(card.parsed_types.types) ELSE {}
  IN  CASE "land" \in types -> "land"
        [] "land" \notin types /\ "creature" \in types -> "creature"
        [] {"land", "creature"} \cap types = {} /\ "planeswalker" \in types -> "planeswalker"
        [] {"land", "creature", "planeswalker"} \cap types = {} /\ "instant" \in types
             -> "instant"
        [] {"land", "creature", "planeswalker", "instant"} \cap types = {}
             /\ "sorcery" \in types -> "sorcery"
        [] {"land", "creature", "planeswalker", "instant", "sorcery"} \cap types = {}
             /\ "enchantment" \in types -> "enchantment"
        [] {"land", "creature", "planeswalker", "instant", "sorcery", "enchantment"}
             \cap types = {} /\ "artifact" \in types -> "artifact"
        [] {"land", "creature", "planeswalker", "instant", "sorcery", "enchantment",
            "artifact"} \cap types = {} /\ "battle" \in types -> "battle"
        [] OTHER -> "other"

\* DeckGenerator.getManaCurveSlot
getManaCurveSlot(cmc) ==
  IF cmc <= 1 THEN "0-1"
  ELSE IF cmc = 2 THEN "2"
  ELSE IF cmc = 3 THEN "3"
  ELSE IF cmc = 4 THEN "4"
  ELSE IF cmc = 5 THEN "5"
  ELSE "6+"

\* the stats object calculateDeckStats starts from (uniqueCards and colors
\* are insertion-ordered Sets)
EmptyStats ==
  [totalCards |-> 0, uniqueCards |-> <<>>, byCategory |-> EmptyMap,
   manaCurve |-> [slot \in {"0-1", "2", "3", "4", "5", "6+"} |-> 0],
   colors |-> <<>>, totalManaValue |-> 0, nonLandCount |-> 0]

\* colors.add(color) for each colour of the card
RECURSIVE AddColors(_, _)
AddColors(colors, identity) ==
  IF identity = <<>> THEN colors
  ELSE AddColors(SetAdd(colors, Head(identity)), Tail(identity))

\* the loop of calculateDeckStats over the entries
RECURSIVE StatsLoop(_, _)
StatsLoop(deck, stats) ==
  IF deck = <<>> THEN stats
  ELSE LET entry == Head(deck)
           count == IF entry.count # 0 THEN entry.count ELSE 1
           card == entry.card
           category == categorizeCard(card)
           counted == [stats EXCEPT
                         !.totalCards = @ + count,
                         !.uniqueCards = SetAdd(@, card.name),
                         !.byCategory = Put(@, category, GetOrZero(@, category) + count),
                         !.colors = AddColors(@, card.color_identity)]
       IN  StatsLoop(Tail(deck),
             IF category # "land"
             THEN [counted EXCEPT
                     !.manaCurve[getManaCurveSlot(card.cmc)] = @ + count,
                     !.totalManaValue = @ + card.cmc * count,
                     !.nonLandCount = @ + count]
             ELSE counted)

\* (totalManaValue / nonLandCount).toFixed(2), in hundredths: toFixed takes
\* the nearest hundredth and the larger one of two equally near
ToFixed2(total, n) == (200 * total + n) \div (2 * n)

\* DeckGenerator.calculateDeckStats
calculateDeckStats(deck) ==
  LET stats == StatsLoop(deck, EmptyStats)
  IN  [totalCards |-> stats.totalCards,
       uniqueCards |-> Len(stats.uniqueCards),
       byCategory |-> stats.byCategory,
       manaCurve |-> stats.manaCurve,
       colors |-> stats.colors,
       avgManaValue |-> IF stats.nonLandCount > 0
                        THEN ToFixed2(stats.totalManaValue, stats.nonLandCount) ELSE 0,
       totalManaValue |-> stats.totalManaValue,
       nonLandCount |-> stats.nonLandCount]

\* the values Math.floor(Math.random() * (i + 1)) takes in the passes
\* i = n-1 .. 1 of shuffle over n elements
ShuffleDraws(n) == {js \in [1..(n - 1) -> 0..(n - 1)] : \A i \in 1..(n - 1) : js[i] <= i}

\* the passes i, i-1, .. 1 of shuffle: swap result[i] and result[j]
\* (positions counted from 0)
RECURSIVE ShuffleLoop(_, _, _)
ShuffleLoop(result, i, js) ==
  IF i <= 0 THEN result
  ELSE ShuffleLoop([result EXCEPT ![i + 1] = result[js[i] + 1],
                                  ![js[i] + 1] = result[i + 1]], i - 1, js)

\* DeckGenerator.shuffle (Fisher-Yates) under the draws js
shuffle(array, js) == ShuffleLoop(array, Len(array) - 1, js)

----------------------------------------------------------------------------
(* DeckGenerator: sampling a deck.  A call of generateRandomDeck is kept   *)
(* as a frame: its validated constraints, the lands and non-lands of the   *)
(* candidates, the items its current loop still has to visit, the deck and *)
(* currentDeck it is filling, and the commander a call made by             *)
(* generateCommanderDeck carries (<<>> without one).                       *)

\* currentDeck as generateRandomDeck creates it
EmptyCurrentDeck ==
  [cardCounts |-> EmptyMap, byCategory |-> EmptyMap, totalManaValue |-> 0,
   nonLandCount |-> 0]

\* what Math.ceil(Math.random() * maxCopies) can be, where addCardToDeck
\* evaluates it (Math.random() is in [0, 1))
CopyRolls(card, constraints) ==
  IF ~isBasicLand(card) /\ constraints.maxCopies > 1 THEN 0..constraints.maxCopies
  ELSE {0}

\* copiesToAdd without the cap at the copies the name may still take
CopiesToAdd_Uncapped(card, currentDeck, constraints, roll) ==
  IF isBasicLand(card)
  THEN Min(BasicLandBatch, constraints.maxLands - GetOrZero(currentDeck.byCategory, "land"))
  ELSE IF constraints.maxCopies > 1 THEN roll
  ELSE 1

\* copiesToAdd of addCardToDeck
CopiesToAdd(card, currentDeck, constraints, roll) ==
  IF isBasicLand(card)
  THEN Min(BasicLandBatch, constraints.maxLands - GetOrZero(currentDeck.byCategory, "land"))
  ELSE IF constraints.maxCopies > 1
       THEN Min(roll, constraints.maxCopies - GetOrZero(currentDeck.cardCounts, card.name))
  ELSE 1

\* DeckGenerator.addCardToDeck under the roll; returns the deck and currentDeck
addCardToDeck(deck, card, currentDeck, constraints, roll) ==
  LET category == categorizeCard(card)
      currentCount == GetOrZero(currentDeck.cardCounts, card.name)
      copiesToAdd == CopiesToAdd(card, currentDeck, constraints, roll)
      existing == {i \in DOMAIN deck : deck[i].card.id = card.id}
      first == CHOOSE i \in existing : \A j \in existing : i <= j
  IN  IF copiesToAdd <= 0 THEN [deck |-> deck, currentDeck |-> currentDeck]
      ELSE [deck |-> IF existing # {}
                     THEN [deck EXCEPT ![first].count = @ + copiesToAdd]
                     ELSE Append(deck, [card |-> card, count |-> copiesToAdd]),
            currentDeck |->
              [cardCounts |-> Put(currentDeck.cardCounts, card.name,
                                  currentCount + copiesToAdd),
               byCategory |-> Put(currentDeck.byCategory, category,
                                  GetOrZero(currentDeck.byCategory, category)
                                    + copiesToAdd),
               totalManaValue |-> currentDeck.totalManaValue
                                    + (IF category # "land" THEN card.cmc * copiesToAdd
                                       ELSE 0),
               nonLandCount |-> currentDeck.nonLandCount
                                  + (IF category # "land" THEN copiesToAdd ELSE 0)]]

\* the frame generateRandomDeck starts with: validated constraints, empty
\* deck, candidates separated, the mustInclude loop ahead
NewFrame(candidates, constraints, commander) ==
  LET validatedConstraints == validateConstraints(constraints)
  IN  [constraints |-> validatedConstraints,
       lands |-> SelectSeq(candidates, LAMBDA c : categorizeCard(c) = "land"),
       nonLands |-> SelectSeq(candidates, LAMBDA c : categorizeCard(c) # "land"),
       queue |-> validatedConstraints.mustInclude,
       deck |-> <<>>,
       currentDeck |-> EmptyCurrentDeck,
       targetLands |-> 0,
       commander |-> commander]

\* the frame when no call is running
NoFrame == NewFrame(<<>>, EmptyQuery, <<>>)

\* the body the three loops share: add the card if isCardValid accepts it
TryAdd(g, card, roll) ==
  LET added == addCardToDeck(g.deck, card, g.currentDeck, g.constraints, roll)
  IN  IF isCardValid(card, g.constraints, g.currentDeck)
      THEN [g EXCEPT !.deck = added.deck, !.currentDeck = added.currentDeck,
                     !.queue = Tail(@)]
      ELSE [g EXCEPT !.queue = Tail(@)]

\* nonLands.find(byName) || lands.find(byName), <<>> when neither finds one
FindMustInclude(g, cardName) ==
  LET byName(c) == LowerSeq(c.name) = LowerSeq(cardName)
      nonLand == SelectSeq(g.nonLands, byName)
      land == SelectSeq(g.lands, byName)
  IN  IF nonLand # <<>> THEN <<nonLand[1]>>
      ELSE IF land # <<>> THEN <<land[1]>>
      ELSE <<>>

\* minLands + Math.floor(Math.random() * (maxLands - minLands + 1))
TargetLands(constraints) ==
  LET span == constraints.maxLands - constraints.minLands + 1
  IN  IF span > 0 THEN constraints.minLands..(constraints.minLands + span - 1)
      ELSE (constraints.minLands + span)..constraints.minLands

\* deck.reduce((sum, e) => sum + e.count, 0)
RECURSIVE DeckTotal(_)
DeckTotal(deck) == IF deck = <<>> THEN 0 ELSE Head(deck).count + DeckTotal(Tail(deck))

\* the land loop goes on: a land is left and the break did not fire
\* (byCategory.land is undefined, and the comparison false, before a land)
LandLoopRuns(g) ==
  /\ g.queue # <<>>
  /\ ~(Has(g.currentDeck.byCategory, "land")
       /\ g.currentDeck.byCategory.land >= g.targetLands)

\* the non-land loop goes on
NonLandLoopRuns(g) ==
  /\ g.queue # <<>>
  /\ DeckTotal(g.deck) < g.constraints.deckSize

\* the returned object with valid set only by a deck of the full size
GeneratedDeck_FullOnly(g) ==
  LET stats == calculateDeckStats(g.deck)
  IN  [deck |-> g.deck, constraints |-> g.constraints, stats |-> stats,
       valid |-> stats.totalCards >= g.constraints.deckSize]

\* what generateRandomDeck returns (valid: totalCards >= deckSize * 0.9)
GeneratedDeck(g) ==
  LET stats == calculateDeckStats(g.deck)
  IN  [deck |-> g.deck, constraints |-> g.constraints, stats |-> stats,
       valid |-> 10 * stats.totalCards >= 9 * g.constraints.deckSize]

\* an identity that allows every colour
CommanderIdentity_AnyColor(commander) == <<"W", "U", "B", "R", "G">>

\* commander.color_identity?.join('') || 'c'
CommanderIdentity(commander) ==
  IF Has(commander, "color_identity") /\ commander.color_identity # <<>>
  THEN commander.color_identity
  ELSE <<"c">>

\* the constraints and candidates generateCommanderDeck hands on
CommanderConstraints(commander, additionalConstraints) ==
  [format |-> "commander",
   colorIdentity |-> CommanderIdentity(commander),
   hasCommander |-> TRUE, commander |-> commander.name, deckSize |-> 99,
   maxCopies |-> 1] @@ additionalConstraints

\* the candidates without the removal of the commander's own printings
CommanderCandidates_KeepCommander(idx, commander) ==
  getCandidatePool(idx, [format |-> "commander",
                         colorIdentity |-> CommanderIdentity(commander),
                         colorIdentityOperator |-> "<="])

\* the candidates of generateCommanderDeck: the search of the identity,
\* less the cards with the commander's oracle id
CommanderCandidates(idx, commander) ==
  LET colorIdentity == CommanderIdentity(commander)
      candidates == getCandidatePool(idx, [format |-> "commander", colorIdentity |-> colorIdentity,
                                 colorIdentityOperator |-> "<="])
  IN  SelectSeq(candidates, LAMBDA c : c.oracle_id # commander.oracle_id)

\* the tail of generateCommanderDeck without the second calculateDeckStats
WithCommander_StaleStats(deckObj, commander) ==
  [deck |-> <<[card |-> commander, count |-> 1, isCommander |-> TRUE]>> \o deckObj.deck,
   constraints |-> deckObj.constraints, stats |-> deckObj.stats, valid |-> deckObj.valid,
   commander |-> commander]

\* the tail of generateCommanderDeck: commander first, stats recomputed
WithCommander(deckObj, commander) ==
  LET deck == <<[card |-> commander, count |-> 1, isCommander |-> TRUE]>> \o deckObj.deck
  IN  [deck |-> deck, constraints |-> deckObj.constraints,
       stats |-> calculateDeckStats(deck), valid |-> deckObj.valid,
       commander |-> commander]

\* the frame of a generateMultiple call: its arguments, the candidates its
\* search gave and the decks pushed so far
MultipleFrame(query, constraints, count, candidates) ==
  [query |-> query, constraints |-> constraints, count |-> count,
   candidates |-> candidates, decks |-> <<>>]

\* the loop condition taken one deck too far
MultipleLoopRuns_Inclusive(m) == Len(m.decks) <= m.count

\* for (let i = 0; i < count; i++): i is the number of decks pushed
MultipleLoopRuns(m) == Len(m.decks) < m.count

\* what generateMultiple returns on an empty candidate pool
NoCandidatesResult == [decks |-> <<>>, error |-> "No cards match the query"]

\* what generateMultiple returns after its loop
MultipleResult(m) == [decks |-> m.decks, candidateCount |-> Len(m.candidates)]

----------------------------------------------------------------------------
(* DeckGenerator: the text export.  The exported string is a sequence of   *)
(* characters, its lines joined by "\n".                                   *)

DigitChar(d) ==
  CASE d = 0 -> "0" [] d = 1 -> "1" [] d = 2 -> "2" [] d = 3 -> "3" [] d = 4 -> "4"
    [] d = 5 -> "5" [] d = 6 -> "6" [] d = 7 -> "7" [] d = 8 -> "8" [] d = 9 -> "9"

\* the decimal digits of a count, as a template literal prints it
RECURSIVE Digits(_)
Digits(n) ==
  IF n < 10 THEN <<DigitChar(n)>> ELSE Append(Digits(n \div 10), DigitChar(n % 10))

\* `// ${category.charAt(0).toUpperCase() + category.slice(1)}s`
CategoryHeader(category) ==
  <<"/", "/", " ">> \o
  (CASE category = "land" -> <<"L", "a", "n", "d">>
     [] category = "creature" -> <<"C", "r", "e", "a", "t", "u", "r", "e">>
     [] category = "planeswalker" ->
          <<"P", "l", "a", "n", "e", "s", "w", "a", "l", "k", "e", "r">>
     [] category = "instant" -> <<"I", "n", "s", "t", "a", "n", "t">>
     [] category = "sorcery" -> <<"S", "o", "r", "c", "e", "r", "y">>
     [] category = "enchantment" ->
          <<"E", "n", "c", "h", "a", "n", "t", "m", "e", "n", "t">>
     [] category = "artifact" -> <<"A", "r", "t", "i", "f", "a", "c", "t">>
     [] category = "battle" -> <<"B", "a", "t", "t", "l", "e">>
     [] OTHER -> <<"O", "t", "h", "e", "r">>)
  \o <<"s">>

\* a card line that prints every count as 1
CardLine_OneEach(entry) == <<"1", "x", " ">> \o entry.card.name

\* `${entry.count}x ${entry.card.name}`
CardLine(entry) == Digits(entry.count) \o <<"x", " ">> \o entry.card.name

\* the keys of byCategory in the order exportToText creates them
RECURSIVE CategoryOrder(_, _)
CategoryOrder(deck, acc) ==
  IF deck = <<>> THEN acc
  ELSE CategoryOrder(Tail(deck), SetAdd(acc, categorizeCard(Head(deck).card)))

\* the lines of the categories: header, one line per entry, an empty line
RECURSIVE CategoryLines(_, _)
CategoryLines(deck, categories) ==
  IF categories = <<>> THEN <<>>
  ELSE LET entries == SelectSeq(deck, LAMBDA e : categorizeCard(e.card) = Head(categories))
       IN  <<CategoryHeader(Head(categories))>>
             \o [i \in DOMAIN entries |-> CardLine(entries[i])]
             \o <<<<>>>>
             \o CategoryLines(deck, Tail(categories))

\* lines.join('\n')
RECURSIVE JoinLines(_)
JoinLines(lines) ==
  IF lines = <<>> THEN <<>>
  ELSE IF Len(lines) = 1 THEN lines[1]
  ELSE lines[1] \o <<"\n">> \o JoinLines(Tail(lines))

\* DeckGenerator.exportToText of a deck object
exportToText(deckObj) ==
  JoinLines(CategoryLines(deckObj.deck, CategoryOrder(deckObj.deck, <<>>)))

\* `${entry.count} ${entry.card.name}`
MtgoLine(entry) == Digits(entry.count) \o <<" ">> \o entry.card.name

\* entry.isSideboard as a condition (an entry without the flag is falsy)
IsSideboard(entry) == Has(entry, "isSideboard") /\ entry.isSideboard

\* exportToMtgo pushing the blank line and the marker for every deck
exportToMtgo_AlwaysMarker(deckObj) ==
  LET mainboard == SelectSeq(deckObj.deck, LAMBDA e : ~IsSideboard(e))
      sideboard == SelectSeq(deckObj.deck, IsSideboard)
  IN  JoinLines([i \in DOMAIN mainboard |-> MtgoLine(mainboard[i])]
                  \o <<<<>>, <<"S", "i", "d", "e", "b", "o", "a", "r", "d">>>>
                  \o [i \in DOMAIN sideboard |-> MtgoLine(sideboard[i])])

\* DeckGenerator.exportToMtgo of a deck object
exportToMtgo(deckObj) ==
  LET mainboard == SelectSeq(deckObj.deck, LAMBDA e : ~IsSideboard(e))
      sideboard == SelectSeq(deckObj.deck, IsSideboard)
  IN  JoinLines([i \in DOMAIN mainboard |-> MtgoLine(mainboard[i])]
                  \o (IF Len(sideboard) > 0
                      THEN <<<<>>, <<"S", "i", "d", "e", "b", "o", "a", "r", "d">>>>
                             \o [i \in DOMAIN sideboard |-> MtgoLine(sideboard[i])]
                      ELSE <<>>))

----------------------------------------------------------------------------
(* The calls made of the DeckGenerator *)

\* the candidate arrays generateRandomDeck is called with: both of its loops
\* shuffle the candidates, so one order of each array stands for all
Pools == {arr \in CardArrays : \A i, j \in DOMAIN arr : i < j => arr[i].id <= arr[j].id}

\* a card that carries no legality data, and the candidate arrays with it
Unrated == [key \in DOMAIN Opt \ {"legal_formats"} |-> Opt[key]]

UnratedPools == {<<Unrated>>, <<SkyImp, Unrated>>, <<Unrated, Moor>>}

\* constraints that state the sizes
SizedConstraints ==
  {c \in {[deckSize |-> d, maxCopies |-> m, minLands |-> a, maxLands |-> b] @@ f :
            d \in 1..MaxDeckSize, m \in 1..MaxCopies, a \in 0..MaxLands,
            b \in 0..MaxLands, f \in {EmptyQuery, [format |-> "commander"]}} :
     c.minLands <= c.maxLands}

\* constraints that leave sizes to the format's defaults, name cards to
\* include or ban, or restrict mana value and colours
ListedConstraints ==
  {EmptyQuery,
   [format |-> "commander", deckSize |-> MaxDeckSize, maxCopies |-> MaxCopies,
    mustInclude |-> <<<<"s", "k", "y", " ", "i", "m", "p">>, <<"M", "o", "o", "r">>,
                      <<"m", "o", "o", "r">>, <<"O", "x">>>>],
   [format |-> "commander", maxCopies |-> 1, bannedCards |-> <<Opt.name>>,
    maxManaValue |-> 2, colorIdentity |-> <<"R">>],
   [deckSize |-> 10, maxCopies |-> 5, minLands |-> 4, maxLands |-> 4],
   [format |-> "oathbreaker"]}

ConstraintChoices == SizedConstraints \cup ListedConstraints

\* the cards generateCommanderDeck is called with, and its extra constraints
Commanders == {ImpLord, Moor}

AdditionalConstraints ==
  {EmptyQuery, [mustInclude |-> <<<<"O", "p", "t">>>>, minLands |-> 0, maxLands |-> 0]}

\* the queries, constraints and counts generateMultiple is called with
MultipleQueries ==
  {[set |-> "XXX"], [set |-> "ZNR", format |-> "standard"],
   [set |-> "M21", format |-> "standard"]}

MultipleConstraints ==
  {[format |-> "commander"],
   [deckSize |-> MaxDeckSize, maxCopies |-> MaxCopies, minLands |-> 0, maxLands |-> MaxLands]}

Counts == 0..MaxCount

\* the array the index of the DeckGenerator was built from
DeckIndexCards == <<SkyImp, Opt, Moor, ImpLord, OxDen, SkyImpPromo, Isle>>

----------------------------------------------------------------------------
(* The search index as a state machine.  A session builds and clears the  *)
(* index any number of times and then reads it with one search call, whose *)
(* query and return value the state keeps.  search assigns no property of  *)
(* the index, so going on after a search would only revisit the index      *)
(* states the session has already been through.                            *)

vars == <<cards, textIndex, fieldIndices, built, discarded, lastQuery, lastResult, called,
          pc, gen, returned, exported, multi, generatedQueries, issued,
          stream, normalizedCards, oracleIndex, taskQueue, batches, sched>>

searchVars == <<built, discarded, lastQuery, lastResult, called>>
deckVars == <<pc, gen, returned, exported, multi>>

\* a DeckGenerator no call has been made of
NoDeck ==
  /\ pc = "idle"
  /\ gen = NoFrame
  /\ returned = EmptyMap
  /\ exported = <<>>
  /\ multi = <<>>

\* a RandomQueryGenerator that has issued nothing
NoQueries ==
  /\ generatedQueries = <<>>
  /\ issued = <<>>

\* a CardNormalizer no call has been made of, and an idle event loop
NoStream ==
  /\ stream = [pc |-> "idle", cards |-> <<>>, batchSize |-> 0, i |-> 0]
  /\ normalizedCards = EmptyMap
  /\ oracleIndex = EmptyMap
  /\ taskQueue = <<>>
  /\ batches = <<>>
  /\ sched = [queued |-> 0, ran |-> 0, atBatch |-> <<>>]

\* the index the three variables hold
Index == [cards |-> cards, textIndex |-> textIndex, fieldIndices |-> fieldIndices]

\* new CardSearchIndex()
Init ==
  /\ cards = EmptyIndex.cards
  /\ textIndex = EmptyIndex.textIndex
  /\ fieldIndices = EmptyIndex.fieldIndices
  /\ built = <<>>
  /\ discarded = FALSE
  /\ lastQuery = EmptyQuery
  /\ lastResult = <<>>
  /\ called = "new"
  /\ NoDeck
  /\ NoQueries
  /\ NoStream

\* index.buildIndex(arr)
BuildIndex ==
  \E arr \in CardArrays :
    LET idx == buildIndex(Index, arr)
    IN  /\ called # "search"
        /\ cards' = idx.cards
        /\ textIndex' = idx.textIndex
        /\ fieldIndices' = idx.fieldIndices
        /\ built' = arr
        /\ discarded' = (\E id \in Range(cards.keys) : \A i \in DOMAIN arr : arr[i].id # id)
        /\ lastQuery' = EmptyQuery
        /\ lastResult' = <<>>
        /\ called' = "buildIndex"
        /\ UNCHANGED <<streamVars, deckVars, rqgVars>>

\* index.clear()
Clear ==
  LET idx == clear(Index)
  IN  /\ called # "search"
      /\ cards' = idx.cards
      /\ textIndex' = idx.textIndex
      /\ fieldIndices' = idx.fieldIndices
      /\ built' = <<>>
      /\ discarded' = (cards.keys # <<>>)
      /\ lastQuery' = EmptyQuery
      /\ lastResult' = <<>>
      /\ called' = "clear"
      /\ UNCHANGED <<streamVars, deckVars, rqgVars>>

\* index.search(query)
Search ==
  \E query \in Queries :
    /\ called # "search"
    /\ lastQuery' = query
    /\ lastResult' = search(Index, query)
    /\ called' = "search"
    /\ LET idx == IndexAfterSearch(Index, query)
       IN  /\ cards' = idx.cards
           /\ textIndex' = idx.textIndex
           /\ fieldIndices' = idx.fieldIndices
    /\ UNCHANGED <<streamVars, built, discarded, deckVars, rqgVars>>

Next == BuildIndex \/ Clear \/ Search

Spec == Init /\ [][Next]_vars

----------------------------------------------------------------------------
(* The index built from arrays that repeat an id: a later record of a card *)
(* (an erratum, a reprint under the same id) follows an earlier one.       *)

OptErrata ==
  [Opt EXCEPT !.set = "ZNR", !.rarity = "rare",
              !.full_oracle_text = <<"F", "l", "y", "i", "n", "g">>]

SkyImpErrata ==
  [SkyImp EXCEPT !.keywords = <<>>, !.colors = <<>>,
                 !.parsed_types = [supertypes |-> <<>>, types |-> <<"artifact">>,
                                   subtypes |-> <<>>]]

\* (one card longer than the other arrays: a record between two of one id)
FeedArrays == SeqsUpTo({Opt, OptErrata, SkyImp, SkyImpErrata, Moor}, MaxCards + 1)

\* index.buildIndex(arr) with an array of the feed
BuildFromFeed ==
  \E arr \in FeedArrays :
    LET idx == buildIndex(Index, arr)
    IN  /\ called # "search"
        /\ cards' = idx.cards
        /\ textIndex' = idx.textIndex
        /\ fieldIndices' = idx.fieldIndices
        /\ built' = arr
        /\ discarded' = (\E id \in Range(cards.keys) : \A i \in DOMAIN arr : arr[i].id # id)
        /\ lastQuery' = EmptyQuery
        /\ lastResult' = <<>>
        /\ called' = "buildIndex"
        /\ UNCHANGED <<streamVars, deckVars, rqgVars>>

NextIndex == BuildFromFeed \/ Clear

SpecIndex == Init /\ [][NextIndex]_vars

----------------------------------------------------------------------------
(* The DeckGenerator as a state machine, over an index that was built.  A  *)
(* call of generateRandomDeck or generateCommanderDeck runs its loops one  *)
(* iteration a step, returns its deck object, and the deck is exported.    *)

\* new DeckGenerator(searchIndex) over the built index
InitDeck ==
  LET idx == buildIndex(EmptyIndex, DeckIndexCards)
  IN  /\ cards = idx.cards
      /\ textIndex = idx.textIndex
      /\ fieldIndices = idx.fieldIndices
      /\ built = DeckIndexCards
      /\ discarded = FALSE
      /\ lastQuery = EmptyQuery
      /\ lastResult = <<>>
      /\ called = "buildIndex"
      /\ NoDeck
      /\ NoQueries
      /\ NoStream

\* generateRandomDeck(candidates, constraints) up to the mustInclude loop
GenerateRandomDeck ==
  /\ pc = "idle"
  /\ \E candidates \in Pools \cup UnratedPools, constraints \in ConstraintChoices :
       gen' = NewFrame(candidates, constraints, <<>>)
  /\ pc' = "mustInclude"
  /\ UNCHANGED <<streamVars, idxVars, searchVars, rqgVars, multi, returned, exported>>

\* generateMultiple(query, constraints, count) up to its first
\* generateRandomDeck call, or to its return when it makes none
GenerateMultiple ==
  /\ pc = "idle"
  /\ \E query \in MultipleQueries, constraints \in MultipleConstraints, count \in Counts :
       LET candidates == getCandidatePool(Index, query)
           m == MultipleFrame(query, constraints, count, candidates)
       IN  /\ multi' = <<m>>
           /\ IF Len(candidates) = 0
              THEN /\ returned' = NoCandidatesResult
                   /\ pc' = "returnedMultiple"
                   /\ gen' = gen
              ELSE IF MultipleLoopRuns(m)
              THEN /\ gen' = NewFrame(candidates, constraints, <<>>)
                   /\ pc' = "mustInclude"
                   /\ returned' = returned
              ELSE /\ returned' = MultipleResult(m)
                   /\ pc' = "returnedMultiple"
                   /\ gen' = gen
  /\ UNCHANGED <<streamVars, idxVars, searchVars, rqgVars, exported>>

\* generateMultiple with one currentDeck for all the decks of the batch
PushDeck_SharedCounters ==
  /\ pc = "push"
  /\ LET m == [multi[1] EXCEPT !.decks = Append(@, returned)]
     IN  /\ multi' = <<m>>
         /\ IF MultipleLoopRuns(m)
            THEN /\ gen' = [NewFrame(m.candidates, m.constraints, <<>>)
                              EXCEPT !.currentDeck = gen.currentDeck]
                 /\ pc' = "mustInclude"
                 /\ returned' = EmptyMap
            ELSE /\ returned' = MultipleResult(m)
                 /\ pc' = "returnedMultiple"
                 /\ gen' = gen
  /\ UNCHANGED <<streamVars, idxVars, searchVars, rqgVars, exported>>

\* generateMultiple pushes the deck generateRandomDeck returned, and calls
\* it again or returns
PushDeck ==
  /\ pc = "push"
  /\ LET m == [multi[1] EXCEPT !.decks = Append(@, returned)]
     IN  /\ multi' = <<m>>
         /\ IF MultipleLoopRuns(m)
            THEN /\ gen' = NewFrame(m.candidates, m.constraints, <<>>)
                 /\ pc' = "mustInclude"
                 /\ returned' = EmptyMap
            ELSE /\ returned' = MultipleResult(m)
                 /\ pc' = "returnedMultiple"
                 /\ gen' = gen
  /\ UNCHANGED <<streamVars, idxVars, searchVars, rqgVars, exported>>

\* generateCommanderDeck(commander, additionalConstraints) up to the
\* mustInclude loop of its generateRandomDeck call
GenerateCommanderDeck ==
  /\ pc = "idle"
  /\ \E commander \in Commanders, additionalConstraints \in AdditionalConstraints :
       gen' = NewFrame(CommanderCandidates(Index, commander),
                       CommanderConstraints(commander, additionalConstraints),
                       <<commander>>)
  /\ pc' = "mustInclude"
  /\ UNCHANGED <<streamVars, idxVars, searchVars, rqgVars, multi, returned, exported>>

\* one iteration of the mustInclude loop
MustInclude ==
  /\ pc = "mustInclude"
  /\ gen.queue # <<>>
  /\ LET found == FindMustInclude(gen, Head(gen.queue))
     IN  IF found = <<>> THEN gen' = [gen EXCEPT !.queue = Tail(@)]
         ELSE \E roll \in CopyRolls(found[1], gen.constraints) :
                gen' = TryAdd(gen, found[1], roll)
  /\ UNCHANGED <<streamVars, idxVars, searchVars, rqgVars, multi, pc, returned, exported>>

\* after the mustInclude loop: draw targetLands, shuffle the lands
ShuffleLands ==
  /\ pc = "mustInclude"
  /\ gen.queue = <<>>
  /\ \E targetLands \in TargetLands(gen.constraints), js \in ShuffleDraws(Len(gen.lands)) :
       gen' = [gen EXCEPT !.targetLands = targetLands, !.queue = shuffle(gen.lands, js)]
  /\ pc' = "lands"
  /\ UNCHANGED <<streamVars, idxVars, searchVars, rqgVars, multi, returned, exported>>

\* one iteration of the land loop
AddLand ==
  /\ pc = "lands"
  /\ LandLoopRuns(gen)
  /\ \E roll \in CopyRolls(Head(gen.queue), gen.constraints) :
       gen' = TryAdd(gen, Head(gen.queue), roll)
  /\ UNCHANGED <<streamVars, idxVars, searchVars, rqgVars, multi, pc, returned, exported>>

\* after the land loop: shuffle the non-lands
ShuffleNonLands ==
  /\ pc = "lands"
  /\ ~LandLoopRuns(gen)
  /\ \E js \in ShuffleDraws(Len(gen.nonLands)) :
       gen' = [gen EXCEPT !.queue = shuffle(gen.nonLands, js)]
  /\ pc' = "nonLands"
  /\ UNCHANGED <<streamVars, idxVars, searchVars, rqgVars, multi, returned, exported>>

\* one iteration of the non-land loop
AddNonLand ==
  /\ pc = "nonLands"
  /\ NonLandLoopRuns(gen)
  /\ \E roll \in CopyRolls(Head(gen.queue), gen.constraints) :
       gen' = TryAdd(gen, Head(gen.queue), roll)
  /\ UNCHANGED <<streamVars, idxVars, searchVars, rqgVars, multi, pc, returned, exported>>

\* after the non-land loop: generateRandomDeck computes the stats and returns
ReturnDeck ==
  /\ pc = "nonLands"
  /\ ~NonLandLoopRuns(gen)
  /\ returned' = GeneratedDeck(gen)
  /\ pc' = IF gen.commander # <<>> THEN "commander"
           ELSE IF multi # <<>> THEN "push"
           ELSE "returned"
  /\ UNCHANGED <<streamVars, idxVars, searchVars, rqgVars, multi, gen, exported>>

\* generateCommanderDeck puts the commander in and returns
AddCommander ==
  /\ pc = "commander"
  /\ returned' = WithCommander(returned, gen.commander[1])
  /\ pc' = "returned"
  /\ UNCHANGED <<streamVars, idxVars, searchVars, rqgVars, multi, gen, exported>>

\* exportDeck(deck, 'text')
ExportDeck ==
  /\ pc = "returned"
  /\ exported' = exportToText(returned)
  /\ pc' = "exported"
  /\ UNCHANGED <<streamVars, idxVars, searchVars, rqgVars, multi, gen, returned>>

NextDeck ==
  \/ GenerateRandomDeck \/ GenerateCommanderDeck \/ GenerateMultiple \/ PushDeck
  \/ MustInclude \/ ShuffleLands
  \/ AddLand \/ ShuffleNonLands \/ AddNonLand \/ ReturnDeck \/ AddCommander \/ ExportDeck

SpecDeck == InitDeck /\ [][NextDeck]_vars

----------------------------------------------------------------------------
(* RandomQueryGenerator.  A query string is a sequence of tokens: words,   *)
(* and the separators " " and "+".  null is <<>>, a returned query q is    *)
(* <<q>>.  The generator is built with options that set maxRetries and     *)
(* narrow the config lists; the random draws of one query are the filters  *)
(* at the front of the shuffled options and the position picked in each    *)
(* list.                                                                   *)

\* this.maxRetries = options.maxRetries || 100
maxRetries == MaxRetries

\* this.config, with the lists options.config supplies
config ==
  [types |-> <<<<"land">>>>,
   formats |-> <<<<"Modern">>>>,
   keywords |-> <<<<"first", " ", "strike">>>>]

\* the part each builder method pushes for a value: type (quoted when the
\* value has a space), format and keyword (lower-cased)
BuilderPart(filter, value) ==
  CASE filter = "type" ->
         IF " " \in Range(value) THEN <<"t:", "\"">> \o value \o <<"\"">>
         ELSE <<"t:">> \o value
    [] filter = "format" -> <<"f:">> \o [i \in DOMAIN value |-> toLowerCase(value[i])]
    [] filter = "keyword" -> <<"keyword:">> \o [i \in DOMAIN value |-> toLowerCase(value[i])]

\* the config list a filter picks its value from
ConfigList(filter) ==
  CASE filter = "type" -> config.types
    [] filter = "format" -> config.formats
    [] filter = "keyword" -> config.keywords

\* ScryfallQueryBuilder.build: this.parts.join(' ')
RECURSIVE build(_)
build(parts) ==
  IF parts = <<>> THEN <<>>
  ELSE IF Len(parts) = 1 THEN parts[1]
  ELSE parts[1] \o <<" ">> \o build(Tail(parts))

\* the loop of _generateRandomQuery over the drawn filters: parts pushed
RECURSIVE RandomParts(_, _)
RandomParts(draw, parts) ==
  IF draw = <<>> THEN parts
  ELSE LET filter == Head(draw).filter
           value == ConfigList(filter)[Head(draw).pick + 1]
       IN  RandomParts(Tail(draw), Append(parts, BuilderPart(filter, value)))

\* RandomQueryGenerator._generateRandomQuery under a draw
generateRandomQuery(draw) == build(RandomParts(draw, <<>>))

\* RandomQueryGenerator._formatQuery: query.replace(/ /g, '+')
formatQuery(query) == [i \in DOMAIN query |-> IF query[i] = " " THEN "+" ELSE query[i]]

\* generate without the recording of the query it returns
RECURSIVE generate_NoRecord(_, _, _)
generate_NoRecord(generated, draws, i) ==
  IF i >= maxRetries THEN [query |-> <<>>, generated |-> generated]
  ELSE LET formattedQuery == formatQuery(draws[i + 1])
       IN  IF formattedQuery \notin Range(generated)
           THEN [query |-> <<formattedQuery>>, generated |-> generated]
           ELSE generate_NoRecord(generated, draws, i + 1)

\* RandomQueryGenerator.generate from pass i of its loop, draws[i + 1] being
\* the query _generateRandomQuery returns in pass i: the value returned and
\* generatedQueries afterwards
RECURSIVE generate(_, _, _)
generate(generated, draws, i) ==
  IF i >= maxRetries THEN [query |-> <<>>, generated |-> generated]
  ELSE LET formattedQuery == formatQuery(draws[i + 1])
       IN  IF formattedQuery \notin Range(generated)
           THEN [query |-> <<formattedQuery>>, generated |-> SetAdd(generated, formattedQuery)]
           ELSE generate(generated, draws, i + 1)

\* the draws of one random query: numFilters distinct filters from the
\* front of the shuffled options, each with the position picked in its list
DrawnFilters == {"type", "format", "keyword"}

DistinctFilters(n) ==
  {d \in [1..n -> {[filter |-> f, pick |-> k] : f \in DrawnFilters, k \in 0..0}] :
     /\ \A i, j \in DOMAIN d : i # j => d[i].filter # d[j].filter
     /\ \A i \in DOMAIN d : d[i].pick < Len(ConfigList(d[i].filter))}

QueryDraws ==
  UNION {{d : d \in DistinctFilters(Min(n, Cardinality(DrawnFilters)))} :
           n \in 2..MaxFilters}

\* the queries _generateRandomQuery can return
RandomQueries == {generateRandomQuery(d) : d \in QueryDraws}

\* the queries a generate call can draw from pass i on: one per pass, up to
\* and including the pass whose query is not yet recorded
RECURSIVE PassDraws(_, _)
PassDraws(generated, i) ==
  IF i >= maxRetries THEN {<<>>}
  ELSE UNION {IF formatQuery(q) \in Range(generated)
              THEN {<<q>> \o rest : rest \in PassDraws(generated, i + 1)}
              ELSE {<<q>>} : q \in RandomQueries}

\* what a generate call can come to on a generator that holds `generated`
GenerateOutcomes(generated) ==
  {generate(generated, draws, 0) : draws \in PassDraws(generated, 0)}

\* RandomQueryGenerator.generateMultiple: what count passes of its loop can
\* come to, from the queries pushed so far
RECURSIVE generateMultiple(_, _, _)
generateMultiple(generated, queries, count) ==
  IF count <= 0 THEN {[queries |-> queries, generated |-> generated]}
  ELSE UNION {IF o.query # <<>> /\ o.query[1] # <<>>
              THEN generateMultiple(o.generated, Append(queries, o.query[1]), count - 1)
              ELSE {[queries |-> queries, generated |-> o.generated]} :
                o \in GenerateOutcomes(generated)}

\* RandomQueryGenerator.getGeneratedCount and hasGenerated
getGeneratedCount == Len(generatedQueries)
hasGenerated(query) == query \in Range(generatedQueries)

\* generator.generate()
Generate ==
  /\ Len(issued) < MaxIssued
  /\ \E o \in GenerateOutcomes(generatedQueries) :
       /\ generatedQueries' = o.generated
       /\ issued' = issued \o o.query
       /\ lastResult' = o.query
  /\ lastQuery' = EmptyQuery
  /\ called' = "generate"
  /\ UNCHANGED <<streamVars, idxVars, deckVars>>

\* generator.generateMultiple(count)
GenerateMultipleQueries ==
  /\ \E count \in 0..MaxCount :
       /\ Len(issued) + count <= MaxIssued
       /\ lastQuery' = [count |-> count]
       /\ \E o \in generateMultiple(generatedQueries, <<>>, count) :
            /\ generatedQueries' = o.generated
            /\ issued' = issued \o o.queries
            /\ lastResult' = o.queries
  /\ called' = "generateMultiple"
  /\ UNCHANGED <<streamVars, idxVars, deckVars>>

\* generator.reset()
Reset ==
  /\ generatedQueries' = <<>>
  /\ issued' = <<>>
  /\ lastQuery' = EmptyQuery
  /\ lastResult' = <<>>
  /\ called' = "reset"
  /\ UNCHANGED <<streamVars, idxVars, deckVars>>

NextRandom == Generate \/ GenerateMultipleQueries \/ Reset

SpecRandom == Init /\ [][NextRandom]_vars

----------------------------------------------------------------------------
(* The pure operations of the DeckGenerator, each called once on an        *)
(* argument drawn from a bounded set; lastQuery keeps the argument and     *)
(* lastResult the value returned.                                          *)

\* the objects validateConstraints is called with: every property absent or
\* supplied, with falsy and unknown values among the supplied ones
FormatInputs ==
  {EmptyQuery} \cup {[format |-> f] : f \in {"", "commander", "Commander", "limited",
                                              "brawl", "oathbreaker"}}

NumberInputs(key, most) == {EmptyQuery} \cup {key :> n : n \in 0..most}

ListInputs(key) == {EmptyQuery, key :> <<>>, key :> <<Opt.name>>, key :> <<Moor.name, Opt.name>>}

ConstraintInputs ==
  {f @@ d @@ m @@ a @@ b @@ x @@ i :
     f \in FormatInputs, d \in NumberInputs("deckSize", MaxDeckSize),
     m \in NumberInputs("maxCopies", MaxCopies), a \in NumberInputs("minLands", MaxLands),
     b \in NumberInputs("maxLands", MaxLands), x \in ListInputs("bannedCards"),
     i \in ListInputs("mustInclude")}

\* generator.validateConstraints(constraints)
ValidateConstraints ==
  /\ called = "new"
  /\ \E constraints \in ConstraintInputs :
       /\ lastQuery' = constraints
       /\ lastResult' = validateConstraints(constraints)
  /\ called' = "validateConstraints"
  /\ UNCHANGED <<streamVars, idxVars, built, discarded, deckVars, rqgVars>>

\* the cards isCardValid is called with: the indexed cards, and the card
\* that carries no legality data
ValidityCards == Range(DeckIndexCards) \cup {Unrated}

\* the validated constraints isCardValid is called with
ValidityConstraints ==
  {validateConstraints(f @@ m @@ b @@ c @@ h @@ v) :
     f \in {EmptyQuery, [format |-> "commander"], [format |-> "Commander"],
            [format |-> "oathbreaker"]},
     m \in {[maxCopies |-> n] : n \in 0..MaxCopies},
     b \in {EmptyQuery, [bannedCards |-> <<Opt.name, Moor.name>>]},
     c \in {EmptyQuery, [colorIdentity |-> <<"R">>], [colorIdentity |-> <<"u", "r">>]},
     h \in {EmptyQuery, [hasCommander |-> TRUE], [hasCommander |-> FALSE]},
     v \in {EmptyQuery} \cup {[maxManaValue |-> n] : n \in 0..2}}

\* the deck states isCardValid is called with: no count, or a count for one
\* name
ValidityDecks ==
  {[EmptyCurrentDeck EXCEPT !.cardCounts = counts] :
     counts \in {EmptyMap} \cup {name :> n : name \in {SkyImp.name, Moor.name, Opt.name},
                                            n \in 0..MaxCopies}}

\* generator.isCardValid(card, constraints, currentDeck)
IsCardValid ==
  /\ called = "new"
  /\ \E card \in ValidityCards, constraints \in ValidityConstraints,
        currentDeck \in ValidityDecks :
       /\ lastQuery' = [card |-> card, constraints |-> constraints,
                        currentDeck |-> currentDeck]
       /\ lastResult' = isCardValid(card, constraints, currentDeck)
  /\ called' = "isCardValid"
  /\ UNCHANGED <<streamVars, idxVars, built, discarded, deckVars, rqgVars>>

\* the deck objects exportDeck is called with: entries with and without
\* the sideboard flag, counts of one and of two digits
MtgoEntries ==
  {[card |-> c, count |-> n] @@ flag :
     c \in {SkyImp, Moor}, n \in {1, 12},
     flag \in {EmptyQuery, [isSideboard |-> TRUE], [isSideboard |-> FALSE]}}

MtgoDecks == {[deck |-> d] : d \in SeqsUpTo(MtgoEntries, MaxCards)}

\* generator.exportDeck(deck, 'mtgo')
ExportMtgo ==
  /\ called = "new"
  /\ \E deck \in MtgoDecks :
       /\ lastQuery' = deck
       /\ lastResult' = exportToMtgo(deck)
  /\ called' = "exportDeck"
  /\ UNCHANGED <<streamVars, idxVars, built, discarded, deckVars, rqgVars>>

NextCalls == ValidateConstraints \/ IsCardValid \/ ExportMtgo

SpecCalls == Init /\ [][NextCalls]_vars

----------------------------------------------------------------------------
(* CardNormalizer.streamProcess on the event loop.  The call runs until    *)
(* an await, one step per stretch; `await onBatch(...)` resumes in a       *)
(* microtask, before any queued task, and the promise of setTimeout(.., 0) *)
(* resolves in a task that queues behind the tasks already there.  Other   *)
(* code queues tasks at any time.  A raw card carries the properties the   *)
(* normalizer reads here: id, oracle_id, colors, legalities.               *)

RawImp ==
  [id |-> 1, oracle_id |-> "o1", colors |-> <<"R">>,
   legalities |-> [standard |-> "legal", commander |-> "restricted", modern |-> "banned"]]

RawPromo == [id |-> 6, oracle_id |-> "o1"]

RawToken == [id |-> 8, legalities |-> [standard |-> "not_legal"]]

RawArrays == SeqsUpTo({RawImp, RawPromo, RawToken}, MaxStream)

\* CardNormalizer.normalizeCard, for the properties above
normalizeCard(card) ==
  [id |-> card.id,
   colors |-> IF Has(card, "colors") THEN card.colors ELSE <<>>,
   legal_formats |->
     IF Has(card, "legalities")
     THEN [format \in DOMAIN card.legalities |->
             card.legalities[format] \in {"legal", "restricted"}]
     ELSE EmptyMap]
    @@ Optional(card, "oracle_id")

\* CardNormalizer.processCards from the state n of the two maps: the array
\* it returns and the maps afterwards
RECURSIVE processCards(_, _, _)
processCards(n, cs, normalizedSoFar) ==
  IF cs = <<>> THEN [normalized |-> normalizedSoFar, normalizedCards |-> n.normalizedCards,
                     oracleIndex |-> n.oracleIndex]
  ELSE LET card == Head(cs)
           normalized == normalizeCard(card)
           byId == Put(n.normalizedCards, card.id, normalized)
           byOracle ==
             IF ~Has(card, "oracle_id") THEN n.oracleIndex
             ELSE IF card.oracle_id \in DOMAIN n.oracleIndex
             THEN [n.oracleIndex EXCEPT ![card.oracle_id] = Append(@, normalized)]
             ELSE n.oracleIndex @@ (card.oracle_id :> <<normalized>>)
       IN  processCards([normalizedCards |-> byId, oracleIndex |-> byOracle], Tail(cs),
                        Append(normalizedSoFar, normalized))

\* the loop test of streamProcess with <= for <
StreamLoopRuns_Inclusive(s) == s.i <= Len(s.cards)

\* the loop test of streamProcess: i < cards.length
StreamLoopRuns(s) == s.i < Len(s.cards)

\* normalizer.streamProcess(cards, onBatch, batchSize) is called
StreamProcess ==
  /\ stream.pc = "idle"
  /\ \E cs \in RawArrays, batchSize \in 0..MaxBatchSize :
       stream' = [pc |-> "loop", cards |-> cs, batchSize |-> batchSize, i |-> 0]
  /\ UNCHANGED <<idxVars, lastQuery, lastResult, called, deckVars, rqgVars,
                 normalizedCards, oracleIndex, taskQueue, batches, sched>>

\* one pass of the loop up to `await onBatch(normalized, i, cards.length)`
\* (the record of the onBatch calls holds one call more than there are
\* cards: the calls of a run that goes on after that are made, not recorded)
NextBatch ==
  /\ stream.pc = "loop"
  /\ StreamLoopRuns(stream)
  /\ LET batch == Slice(stream.cards, stream.i, stream.i + stream.batchSize)
         done == processCards([normalizedCards |-> normalizedCards,
                               oracleIndex |-> oracleIndex], batch, <<>>)
         recorded == Len(batches) <= Len(stream.cards)
     IN  /\ normalizedCards' = done.normalizedCards
         /\ oracleIndex' = done.oracleIndex
         /\ batches' = IF recorded
                       THEN Append(batches, [normalized |-> done.normalized, i |-> stream.i,
                                             total |-> Len(stream.cards)])
                       ELSE batches
         /\ sched' = IF recorded
                     THEN [sched EXCEPT !.atBatch =
                             Append(@, [queued |-> sched.queued, ran |-> sched.ran])]
                     ELSE sched
  /\ stream' = [stream EXCEPT !.pc = "awaitBatch"]
  /\ UNCHANGED <<idxVars, lastQuery, lastResult, called, deckVars, rqgVars, taskQueue>>

\* after onBatch: `await new Promise(resolve => setTimeout(resolve, 0))`
AwaitTimer ==
  /\ stream.pc = "awaitBatch"
  /\ taskQueue' = Append(taskQueue, "resolve")
  /\ stream' = [stream EXCEPT !.pc = "awaitTimer"]
  /\ UNCHANGED <<idxVars, lastQuery, lastResult, called, deckVars, rqgVars,
                 normalizedCards, oracleIndex, batches, sched>>

\* the event loop runs its oldest task: the timer resumes the call at
\* `i += batchSize`, any other task runs to its end
RunTask ==
  /\ stream.pc \in {"awaitTimer", "done"}
  /\ taskQueue # <<>>
  /\ taskQueue' = Tail(taskQueue)
  /\ IF Head(taskQueue) = "resolve"
     THEN /\ stream' = [stream EXCEPT !.pc = "loop", !.i = @ + stream.batchSize]
          /\ sched' = sched
     ELSE /\ sched' = [sched EXCEPT !.ran = @ + 1]
          /\ stream' = stream
  /\ UNCHANGED <<idxVars, lastQuery, lastResult, called, deckVars, rqgVars,
                 normalizedCards, oracleIndex, batches>>

\* other code queues a task
QueueTask ==
  /\ sched.queued < MaxTasks
  /\ taskQueue' = Append(taskQueue, "task")
  /\ sched' = [sched EXCEPT !.queued = @ + 1]
  /\ UNCHANGED <<idxVars, lastQuery, lastResult, called, deckVars, rqgVars,
                 stream, normalizedCards, oracleIndex, batches>>

\* the loop test fails and the call's promise resolves
StreamDone ==
  /\ stream.pc = "loop"
  /\ ~StreamLoopRuns(stream)
  /\ stream' = [stream EXCEPT !.pc = "done"]
  /\ UNCHANGED <<idxVars, lastQuery, lastResult, called, deckVars, rqgVars,
                 normalizedCards, oracleIndex, taskQueue, batches, sched>>

NextStream == StreamProcess \/ NextBatch \/ AwaitTimer \/ RunTask \/ QueueTask \/ StreamDone

\* the engine runs a continuation that is ready, and the event loop a task
\* that is queued
SpecStream ==
  /\ Init
  /\ [][NextStream]_vars
  /\ WF_vars(NextBatch) /\ WF_vars(AwaitTimer) /\ WF_vars(RunTask) /\ WF_vars(StreamDone)

----------------------------------------------------------------------------
(* Properties of the search index *)

\* the ids of an array of card records
IdSet(records) == {records[i].id : i \in DOMAIN records}

\* the finished search call whose query has exactly the properties keys
Searched(keys) == called = "search" /\ DOMAIN lastQuery = keys

\* the parsed supertypes, types and subtypes of a card
AllTypesOf(card) ==
  Range(card.parsed_types.supertypes) \cup Range(card.parsed_types.types)
    \cup Range(card.parsed_types.subtypes)

\* C1  Type filter soundness: when the only filter of the query is type = X,
\* one string, every returned card has X, lower-cased, among its parsed
\* supertypes, types or subtypes.
C1_TypeSoundness ==
  (Searched({"type"}) /\ Has(lastQuery.type, "str") /\ lastQuery.type.str # "")
    => \A i \in DOMAIN lastResult :
         toLowerCase(lastQuery.type.str) \in AllTypesOf(lastResult[i])

\* a type query given in capitals matched a card through its subtype, in an
\* index that also holds a card without it
C1_Witness ==
  /\ Searched({"type"})
  /\ lastQuery.type = Str("Imp")
  /\ IdSet(lastResult) = {4}
  /\ built = <<Opt, ImpLord>>

\* the letters of a colour string, lower-cased, as a set
LetterSet(S) == {LowerChar(S[i]) : i \in DOMAIN S}

\* the colour set the claim gives a card: lower-cased, {c} when empty
ClaimedColors(card, key) ==
  LET letters == IF key = "colors" THEN card.colors ELSE card.color_identity
  IN  IF letters = <<>> THEN {"c"} ELSE LetterSet(letters)

\* the relation the claim gives each operator between card set C and target S
ClaimedRelation(op, C, S) ==
  CASE op = "="  -> C = S
    [] op = "<=" -> C \subseteq S
    [] op = ">=" -> S \subseteq C
    [] op = "<"  -> C \subseteq S /\ C # S
    [] op = ">"  -> S \subseteq C /\ C # S

\* the colour-only query on property key with operator property opKey
ColorCase(key, opKey) ==
  /\ Searched({key, opKey})
  /\ lastQuery[key] # <<>>
  /\ LetterSet(lastQuery[key]) \subseteq {"w", "u", "b", "r", "g", "c"}
  /\ lastQuery[opKey] \in Operators

ColorLaw(key, opKey) ==
  ColorCase(key, opKey) =>
    /\ IdSet(lastResult) =
         {id \in DOMAIN cards.at :
            ClaimedRelation(lastQuery[opKey], ClaimedColors(cards.at[id], key),
                            LetterSet(lastQuery[key]))}
    /\ Len(lastResult) = Cardinality(IdSet(lastResult))
    /\ \A i \in DOMAIN lastResult : lastResult[i] = cards.at[lastResult[i].id]

\* C2  Colour-set comparator: a query whose only filter is colors or
\* colorIdentity, with a target S over wubrgc and one of the five operators,
\* returns exactly the indexed cards whose colour set (lower-cased, {c} when
\* empty) stands in the operator's relation to S.
C2_ColorComparator ==
  ColorLaw("colors", "colorOperator") /\ ColorLaw("colorIdentity", "colorIdentityOperator")

\* identity < ur returned the red card, with the card of identity ur itself
\* indexed and not returned
C2_Witness ==
  /\ ColorCase("colorIdentity", "colorIdentityOperator")
  /\ lastQuery.colorIdentity = <<"u", "r">>
  /\ lastQuery.colorIdentityOperator = "<"
  /\ built = <<ImpLord, SkyImp>>
  /\ IdSet(lastResult) = {1}

\* the rank the claim gives a rarity: common < uncommon < rare < mythic
ClaimedRank(r) ==
  CASE r = "common" -> 1 [] r = "uncommon" -> 2 [] r = "rare" -> 3 [] r = "mythic" -> 4
    [] OTHER -> 0

ClaimedOrder(op, a, b) ==
  CASE op = "=" -> a = b [] op = "<" -> a < b [] op = ">" -> a > b
    [] op = "<=" -> a <= b [] op = ">=" -> a >= b

\* the rarity-only query with a target of the four and one of the operators
RarityCase ==
  /\ Searched({"rarity", "rarityOperator"})
  /\ lastQuery.rarity \in {"common", "uncommon", "rare", "mythic"}
  /\ lastQuery.rarityOperator \in Operators

\* C3  Rarity ordering: the rarity filter returns exactly the cards whose
\* rarity is one of the four and whose rank stands in the operator's relation
\* to the target's rank; a card with another rarity never matches.
C3_RarityOrdering ==
  RarityCase =>
    IdSet(lastResult) =
      {id \in DOMAIN cards.at :
         /\ Has(cards.at[id], "rarity")
         /\ ClaimedRank(cards.at[id].rarity) # 0
         /\ ClaimedOrder(lastQuery.rarityOperator, ClaimedRank(cards.at[id].rarity),
                         ClaimedRank(lastQuery.rarity))}

\* rarity < rare over a common card and a card of rarity "special": only
\* the common card comes back
C3_Witness ==
  /\ RarityCase
  /\ lastQuery.rarity = "rare"
  /\ lastQuery.rarityOperator = "<"
  /\ built = <<SkyImpPromo, SkyImp>>
  /\ IdSet(lastResult) = {1}

\* C8  Rebuild: no search returns a record that is not in the array of the
\* most recent buildIndex, and search({}) returns exactly that array's
\* records, one per distinct id (none after clear).
C8_RebuildDiscards ==
  called = "search" =>
    /\ \A i \in DOMAIN lastResult : lastResult[i] \in Range(built)
    /\ lastQuery = EmptyQuery =>
         /\ {lastResult[i] : i \in DOMAIN lastResult} = Range(built)
         /\ Len(lastResult) = Cardinality(IdSet(built))

\* search({}) after a buildIndex that replaced other cards and was handed
\* the same record twice
C8_Witness ==
  /\ called = "search"
  /\ lastQuery = EmptyQuery
  /\ discarded
  /\ built = <<Opt, Opt>>
  /\ Len(lastResult) = 1

\* the filter kinds the query supplies
KindsOf(query) == {k \in FilterKinds : Has(query, k)}

\* the query has no sort and no pagination property
Unpaged(query) == DOMAIN query \cap {"sortBy", "sortOrder", "limit", "offset"} = {}

\* the ids search returns for the filter kind k of the last query alone
AloneIds(k) == IdSet(search(Index, Restrict(lastQuery, KeysOf(k))))

\* C9  Default AND semantics: without sort or pagination, the ids returned
\* are the intersection of the ids each supplied filter kind returns alone
\* (all cards when the query supplies none).
C9_AndSemantics ==
  (called = "search" /\ Unpaged(lastQuery)) =>
    IdSet(lastResult) =
      {id \in DOMAIN cards.at : \A k \in KindsOf(lastQuery) : id \in AloneIds(k)}

\* two filters that each match one card, and not the same one
C9_Witness ==
  /\ called = "search"
  /\ Unpaged(lastQuery)
  /\ KindsOf(lastQuery) = {"name", "set"}
  /\ AloneIds("name") = {1}
  /\ AloneIds("set") = {3}
  /\ lastResult = <<>>

\* the last query without its pagination properties
Unlimited(query) == Restrict(query, DOMAIN query \ {"limit", "offset"})

\* the numeric sort key the claim's order is judged by (ascending)
SortKey(card, sortBy) ==
  CASE sortBy = "cmc" -> card.cmc
    [] sortBy = "released" -> card.released_at
    [] sortBy = "rarity" -> ClaimedRank(card.rarity)

\* the list is in the order the query asks for, for the numeric sort keys
InOrder(list, query) ==
  query.sortBy \in {"cmc", "released", "rarity"} =>
    \A i, j \in DOMAIN list :
      i < j => IF Has(query, "sortOrder") /\ query.sortOrder = "desc"
               THEN SortKey(list[i], query.sortBy) >= SortKey(list[j], query.sortBy)
               ELSE SortKey(list[i], query.sortBy) <= SortKey(list[j], query.sortBy)

\* the query sorts and paginates from an offset
PagedCase ==
  /\ called = "search"
  /\ {"sortBy", "limit", "offset"} \subseteq DOMAIN lastQuery

\* C10  Pagination after sort: with sortBy, offset o and limit l, search
\* returns the elements o .. o+l-1 of the sorted list of all matches (what
\* the query returns without offset and limit), so at most l records.
C10_PageAfterSort ==
  PagedCase =>
    LET full == search(Index, Unlimited(lastQuery))
        o == lastQuery.offset
        l == lastQuery.limit
    IN  /\ InOrder(full, lastQuery)
        /\ IdSet(full) = IdSet(search(Index, Restrict(lastQuery, FilterKinds)))
        /\ lastResult = [i \in 1..(Min(o + l, Len(full)) - Min(o, Len(full))) |-> full[o + i]]
        /\ Len(lastResult) <= l

\* the second page of size one of a descending sort whose order differs
\* from the order the cards were indexed in
C10_Witness ==
  /\ PagedCase
  /\ lastQuery = [sortBy |-> "cmc", sortOrder |-> "desc", limit |-> 1, offset |-> 1]
  /\ built = <<Opt, ImpLord>>
  /\ IdSet(lastResult) = {2}

----------------------------------------------------------------------------
(* Properties of the DeckGenerator *)

\* a call has returned its deck object
Returned == pc \in {"returned", "exported"}

\* generateRandomDeck, called directly, has returned its deck object
RandomDeckReturned == Returned /\ ~Has(returned, "commander")

\* a basic land, by the parsed type line
BasicLandCard(card) ==
  "basic" \in Range(card.parsed_types.supertypes) /\ "land" \in Range(card.parsed_types.types)

\* a land, by the parsed type line
LandCard(card) == "land" \in Range(card.parsed_types.types)

\* the sum of the counts of the entries at the positions
RECURSIVE SumCounts(_, _)
SumCounts(deck, positions) ==
  IF positions = {} THEN 0
  ELSE LET i == CHOOSE p \in positions : TRUE
       IN  deck[i].count + SumCounts(deck, positions \ {i})

\* the copies of the name in the deck
NameCount(deck, name) == SumCounts(deck, {i \in DOMAIN deck : deck[i].card.name = name})

\* C4  Copy limit: in every deck generateRandomDeck returns under
\* maxCopies > 1, the counts of each card name that is not a basic land sum
\* to at most maxCopies.
C4_CopyLimit ==
  (RandomDeckReturned /\ returned.constraints.maxCopies > 1) =>
    \A i \in DOMAIN returned.deck :
      ~BasicLandCard(returned.deck[i].card) =>
        NameCount(returned.deck, returned.deck[i].card.name) <= returned.constraints.maxCopies

\* two printings of one name share the limit: the second entry got what the
\* first had left of maxCopies
C4_Witness ==
  /\ RandomDeckReturned
  /\ returned.constraints.maxCopies = 2
  /\ Len(returned.deck) = 2
  /\ returned.deck[1].card.id # returned.deck[2].card.id
  /\ returned.deck[1].card.name = SkyImp.name
  /\ returned.deck[2].card.name = SkyImp.name
  /\ NameCount(returned.deck, SkyImp.name) = 2

\* the number of land cards of a deck
LandCount(deck) == SumCounts(deck, {i \in DOMAIN deck : LandCard(deck[i].card)})

\* C5  Land bounds, as the specification states them: the land count of a
\* deck generateRandomDeck returns is within [minLands, maxLands], or the
\* pool fell short of lands, the total is below deckSize and valid is false.
C5_LandBounds ==
  RandomDeckReturned =>
    LET lands == LandCount(returned.deck)
        constraints == returned.constraints
    IN  \/ constraints.minLands <= lands /\ lands <= constraints.maxLands
        \/ /\ lands < constraints.minLands
           /\ returned.stats.totalCards < constraints.deckSize
           /\ ~returned.valid

\* the sum of the six buckets of a mana curve
CurveTotal(manaCurve) ==
  manaCurve["0-1"] + manaCurve["2"] + manaCurve["3"] + manaCurve["4"] + manaCurve["5"]
    + manaCurve["6+"]

\* C6  Stats consistency: in every deck object generateRandomDeck or
\* generateCommanderDeck produces, stats.totalCards is the sum of the entry
\* counts, and the six manaCurve buckets sum to stats.nonLandCount, the sum
\* of the counts of the entries not categorized as land.
C6_StatsConsistency ==
  Has(returned, "deck") =>
    /\ returned.stats.totalCards = SumCounts(returned.deck, DOMAIN returned.deck)
    /\ CurveTotal(returned.stats.manaCurve) = returned.stats.nonLandCount
    /\ returned.stats.nonLandCount =
         SumCounts(returned.deck,
                   {i \in DOMAIN returned.deck : categorizeCard(returned.deck[i].card) # "land"})

\* a commander deck: the commander's entry first, counted in the stats with
\* the two cards generateRandomDeck had put in
C6_Witness ==
  /\ Returned
  /\ Has(returned, "commander")
  /\ Has(returned.deck[1], "isCommander")
  /\ Len(returned.deck) = 3
  /\ returned.stats.totalCards = 3
  /\ returned.stats.manaCurve["6+"] = 1

\* the text cut at its line breaks
RECURSIVE SplitLines(_, _)
SplitLines(chars, line) ==
  IF chars = <<>> THEN <<line>>
  ELSE IF Head(chars) = "\n" THEN <<line>> \o SplitLines(Tail(chars), <<>>)
  ELSE SplitLines(Tail(chars), Append(line, Head(chars)))

DigitChars == {"0", "1", "2", "3", "4", "5", "6", "7", "8", "9"}

\* the number of digits a line starts with
RECURSIVE LeadingDigits(_)
LeadingDigits(line) ==
  IF line # <<>> /\ Head(line) \in DigitChars THEN 1 + LeadingDigits(Tail(line)) ELSE 0

\* the number a sequence of digits writes
RECURSIVE ReadNumber(_)
ReadNumber(digits) ==
  IF digits = <<>> THEN 0
  ELSE 10 * ReadNumber(SubSeq(digits, 1, Len(digits) - 1))
       + (CHOOSE d \in 0..9 : DigitChar(d) = digits[Len(digits)])

\* a '<count>x <name>' line: digits, "x", a space, the name
IsCardLine(line) ==
  LET k == LeadingDigits(line)
  IN  k > 0 /\ Len(line) >= k + 2 /\ line[k + 1] = "x" /\ line[k + 2] = " "

\* the count and name a card line reads back as
ReadCardLine(line) ==
  LET k == LeadingDigits(line)
  IN  [count |-> ReadNumber(SubSeq(line, 1, k)), name |-> SubSeq(line, k + 3, Len(line))]

\* the card lines of an exported text, read back
ReadBack(chars) ==
  LET lines == SelectSeq(SplitLines(chars, <<>>), IsCardLine)
  IN  [i \in DOMAIN lines |-> ReadCardLine(lines[i])]

\* the lines of an exported text that are no card line
OtherLines(chars) == SelectSeq(SplitLines(chars, <<>>), LAMBDA line : ~IsCardLine(line))

\* C7  Text export round trip: the '<count>x <name>' lines of the exported
\* text, headers and blank lines left out and counts summed by name, give
\* the name-to-count multiset of the deck's entries, and every entry is on
\* exactly one line.
C7_TextRoundTrip ==
  pc = "exported" =>
    LET read == ReadBack(exported)
        deck == returned.deck
    IN  /\ \A line \in Range(OtherLines(exported)) :
             line = <<>> \/ SubSeq(line, 1, 2) = <<"/", "/">>
        /\ Len(read) = Len(deck)
        /\ \A i \in DOMAIN deck :
             /\ SumCounts(read, {j \in DOMAIN read : read[j].name = deck[i].card.name})
                  = NameCount(deck, deck[i].card.name)
             /\ Cardinality({j \in DOMAIN read :
                               read[j] = [count |-> deck[i].count, name |-> deck[i].card.name]})
                  = Cardinality({j \in DOMAIN deck :
                                   /\ deck[j].count = deck[i].count
                                   /\ deck[j].card.name = deck[i].card.name})
        /\ \A j \in DOMAIN read : \E i \in DOMAIN deck : deck[i].card.name = read[j].name

\* the export of a deck with a two-digit count and two categories: two
\* card lines, two headers and two empty lines
C7_Witness ==
  /\ pc = "exported"
  /\ Len(returned.deck) = 2
  /\ \E i \in DOMAIN returned.deck : returned.deck[i].count >= 10
  /\ Len(ReadBack(exported)) = 2
  /\ Len(OtherLines(exported)) = 4

----------------------------------------------------------------------------
(* Properties of generateMultiple *)

\* a generateMultiple call has returned
MultipleReturned == pc = "returnedMultiple"

C11_EmptyPoolReturned ==
  /\ MultipleReturned
  /\ multi[1].candidates = <<>>
  /\ multi[1].count > 0
  /\ Has(returned, "error")

----------------------------------------------------------------------------
(* Properties of generateCommanderDeck *)

\* generateCommanderDeck has returned
CommanderDeckReturned == Returned /\ Has(returned, "commander")

\* the colours of a card's colour identity
IdentityOf(card) == {card.color_identity[i] : i \in DOMAIN card.color_identity}

\* C12: in a deck generateCommanderDeck returned, every entry but the
\* commander's has a colour identity within the commander's colour identity.
C12_CommanderIdentity ==
  CommanderDeckReturned =>
    \A i \in DOMAIN returned.deck :
      i > 1 => IdentityOf(returned.deck[i].card) \subseteq IdentityOf(returned.commander)

\* a blue-red commander with a red and a blue card, while the index holds a
\* green card that is legal in the format
C12_Witness ==
  /\ CommanderDeckReturned
  /\ returned.commander = ImpLord
  /\ {returned.deck[i].card.name : i \in DOMAIN returned.deck}
       = {ImpLord.name, SkyImp.name, Opt.name}
  /\ OxDen \in Range(built)
  /\ OxDen.legal_formats.commander

\* the constraints of a generateCommanderDeck call without additional ones
DefaultCommanderConstraints ==
  /\ returned.constraints.mustInclude = <<>>
  /\ returned.constraints.minLands = 35
  /\ returned.constraints.maxLands = 40

\* generateRandomDeck has returned a deck object that is still as it
\* returned it
GeneratedNow == pc \in {"commander", "push"} \/ RandomDeckReturned

\* C13: a deck generateCommanderDeck returned starts with the commander,
\* count 1 and isCommander set; no other entry has the commander's oracle
\* id; every other entry but a basic land's has count 1; stats is computed
\* over all the entries, and without additional constraints counts at most
\* 100 cards.  The 100 rests on the sampler: under maxCopies 1, no
\* mustInclude and land bounds within the deck size, generateRandomDeck
\* returns at most deckSize cards.
C13_CommanderStructure ==
  /\ CommanderDeckReturned =>
       /\ returned.deck[1] = [card |-> returned.commander, count |-> 1, isCommander |-> TRUE]
       /\ \A i \in DOMAIN returned.deck :
            i > 1 => /\ returned.deck[i].card.oracle_id # returned.commander.oracle_id
                     /\ ~Has(returned.deck[i], "isCommander")
                     /\ BasicLandCard(returned.deck[i].card) \/ returned.deck[i].count = 1
       /\ returned.stats.totalCards = SumCounts(returned.deck, DOMAIN returned.deck)
       /\ returned.stats.uniqueCards
            = Cardinality({returned.deck[i].card.name : i \in DOMAIN returned.deck})
       /\ returned.constraints.deckSize = 99
       /\ returned.constraints.maxCopies = 1
       /\ DefaultCommanderConstraints => returned.stats.totalCards <= 100
  /\ (/\ GeneratedNow
      /\ returned.constraints.maxCopies = 1
      /\ returned.constraints.mustInclude = <<>>
      /\ returned.constraints.minLands <= returned.constraints.maxLands
      /\ returned.constraints.maxLands <= returned.constraints.deckSize)
       => SumCounts(returned.deck, DOMAIN returned.deck) <= returned.constraints.deckSize

\* a commander deck with four copies of a basic land and single copies of
\* a red and a blue card
C13_Witness ==
  /\ CommanderDeckReturned
  /\ DefaultCommanderConstraints
  /\ returned.commander = ImpLord
  /\ Len(returned.deck) = 4
  /\ \E i \in DOMAIN returned.deck :
       returned.deck[i].card = Isle /\ returned.deck[i].count = BasicLandBatch
  /\ returned.stats.totalCards = 7

\* the sampler filled a deck of maxCopies 1 exactly to its size
C13_FullDeck ==
  /\ RandomDeckReturned
  /\ returned.constraints.maxCopies = 1
  /\ returned.constraints.mustInclude = <<>>
  /\ returned.constraints.deckSize = 2
  /\ returned.stats.totalCards = 2

----------------------------------------------------------------------------
(* Properties of validateConstraints and isCardValid *)

\* validateConstraints has returned
Validated == called = "validateConstraints"

\* the seven properties a Constraints value always has
RequiredKeys ==
  {"format", "deckSize", "maxCopies", "minLands", "maxLands", "bannedCards", "mustInclude"}

\* the defaults of the claim: the format's row of the table, by the name in
\* lower case, and 60 / 4 / 20 / 26 for a name the table does not have
ClaimedFormat(input) == IF Has(input, "format") THEN input.format ELSE "standard"

ClaimedDefaults(format) ==
  LET row == toLowerCase(format)
  IN  IF row \in DOMAIN formatConfigs
      THEN [key \in {"deckSize", "maxCopies", "minLands", "maxLands"} |->
              formatConfigs[row][key]]
      ELSE [deckSize |-> 60, maxCopies |-> 4, minLands |-> 20, maxLands |-> 26]

\* the value of the claim for a property: the caller's, else the default
ClaimedValue(input, key, absent) == IF Has(input, key) THEN input[key] ELSE absent

\* the Constraints value of the claim for an input and its format name
ClaimedConstraints(input, format) ==
  [format |-> format,
   deckSize |-> ClaimedValue(input, "deckSize", ClaimedDefaults(format).deckSize),
   maxCopies |-> ClaimedValue(input, "maxCopies", ClaimedDefaults(format).maxCopies),
   minLands |-> ClaimedValue(input, "minLands", ClaimedDefaults(format).minLands),
   maxLands |-> ClaimedValue(input, "maxLands", ClaimedDefaults(format).maxLands),
   bannedCards |-> ClaimedValue(input, "bannedCards", <<>>),
   mustInclude |-> ClaimedValue(input, "mustInclude", <<>>)]

\* the returned value has the seven properties, with the values of `claimed`
AgreesWith(claimed) ==
  /\ RequiredKeys \subseteq DOMAIN lastResult
  /\ \A key \in RequiredKeys : lastResult[key] = claimed[key]

C14_ZeroDeckSize ==
  /\ Validated
  /\ lastQuery = [format |-> "Commander", deckSize |-> 0, maxCopies |-> 0]
  /\ lastResult.deckSize = 100
  /\ lastResult.maxCopies = 0

\* isCardValid has returned
ValidityChecked == called = "isCardValid"

\* the five reasons of the claim to reject a card
Banned(card, constraints) ==
  \E i \in DOMAIN constraints.bannedCards : constraints.bannedCards[i] = card.name

NotLegal(card, constraints) ==
  /\ "legal_formats" \in DOMAIN card
  /\ constraints.format \notin {f \in DOMAIN card.legal_formats : card.legal_formats[f]}

OutsideIdentity(card, constraints) ==
  /\ "colorIdentity" \in DOMAIN constraints
  /\ "hasCommander" \in DOMAIN constraints
  /\ constraints.hasCommander
  /\ ~(LetterSet(card.color_identity) \subseteq LetterSet(constraints.colorIdentity))

AtCopyLimit(card, constraints, currentDeck) ==
  /\ ~BasicLandCard(card)
  /\ IF card.name \in DOMAIN currentDeck.cardCounts
     THEN currentDeck.cardCounts[card.name] >= constraints.maxCopies
     ELSE constraints.maxCopies <= 0

TooExpensive(card, constraints) ==
  /\ "maxManaValue" \in DOMAIN constraints
  /\ card.cmc > constraints.maxManaValue

\* how many of the five reasons hold of the call
Reasons ==
  LET card == lastQuery.card
      constraints == lastQuery.constraints
  IN  {r \in {"banned", "legality", "identity", "copies", "manaValue"} :
         \/ r = "banned" /\ Banned(card, constraints)
         \/ r = "legality" /\ NotLegal(card, constraints)
         \/ r = "identity" /\ OutsideIdentity(card, constraints)
         \/ r = "copies" /\ AtCopyLimit(card, constraints, lastQuery.currentDeck)
         \/ r = "manaValue" /\ TooExpensive(card, constraints)}

C15_OnlyCopies ==
  /\ ValidityChecked
  /\ Reasons = {"copies"}
  /\ lastResult = FALSE

----------------------------------------------------------------------------
(* Properties of generateRandomDeck's return *)

\* a generateRandomDeck call is between its entry and its return
Generating == pc \in {"mustInclude", "lands", "nonLands"}

\* C16: generateRandomDeck returns a deck object whatever the candidates
\* are: a running call can always take its next step, and the object it
\* returns has deck, constraints, stats and valid, with valid true exactly
\* when 10 * totalCards >= 9 * deckSize.
C16_SoftCompletion ==
  /\ Generating =>
       ENABLED (MustInclude \/ ShuffleLands \/ AddLand \/ ShuffleNonLands \/ AddNonLand
                  \/ ReturnDeck)
  /\ GeneratedNow =>
       /\ {"deck", "constraints", "stats", "valid"} \subseteq DOMAIN returned
       /\ returned.stats.totalCards = SumCounts(returned.deck, DOMAIN returned.deck)
       /\ returned.valid
            = (10 * SumCounts(returned.deck, DOMAIN returned.deck)
                 >= 9 * returned.constraints.deckSize)

\* nine cards of a target of ten: short of the size and valid
C16_Witness ==
  /\ RandomDeckReturned
  /\ returned.constraints.deckSize = 10
  /\ returned.stats.totalCards = 9
  /\ returned.valid

\* an empty pool gives an empty deck that is not valid
C16_EmptyPool ==
  /\ RandomDeckReturned
  /\ gen.lands = <<>>
  /\ gen.nonLands = <<>>
  /\ returned.deck = <<>>
  /\ ~returned.valid

----------------------------------------------------------------------------
(* Properties of the filters by indexed value *)

\* the index has a posting for the value, in lower case, under the field
KnownValue(field, value) == toLowerCase(value) \in DOMAIN fieldIndices[field]

KnownType(value) == \E field \in {"type", "subtype", "supertype"} : KnownValue(field, value)

\* the values of a string-or-list filter that the index knows, as a list
KnownTypes(x) == SelectSeq(AsArray(x), KnownType)
KnownKeywords(x) == SelectSeq(AsArray(x), LAMBDA k : KnownValue("keyword", k))

\* the properties of the query that hold a value the index does not know
\* and none it knows: as the claim has it, the filter is absent
UnknownFilters(query) ==
  {k \in DOMAIN query \cap {"set", "format", "type", "keyword"} :
     \/ k \in {"set", "format"} /\ query[k] # "" /\ ~KnownValue(k, query[k])
     \/ k = "type" /\ TruthyList(query, k) /\ AsArray(query[k]) # <<>>
          /\ KnownTypes(query[k]) = <<>>
     \/ k = "keyword" /\ TruthyList(query, k) /\ AsArray(query[k]) # <<>>
          /\ KnownKeywords(query[k]) = <<>>}

\* the query with its unrecognised values taken out
Pruned(query) ==
  [k \in DOMAIN query \ UnknownFilters(query) |->
     IF k = "type" /\ TruthyList(query, k) /\ KnownTypes(query[k]) # AsArray(query[k])
     THEN Arr(KnownTypes(query[k]))
     ELSE IF k = "keyword" /\ TruthyList(query, k)
             /\ KnownKeywords(query[k]) # AsArray(query[k])
     THEN Arr(KnownKeywords(query[k]))
     ELSE query[k]]

\* C17: a set, format, keyword or type value that no indexed card has is
\* ignored: search returns what the query without that value returns.
C17_UnknownIgnored ==
  called = "search" => lastResult = search(Index, Pruned(lastQuery))

\* C17, the part that holds: an unrecognised type in a list with a
\* recognised one is ignored.
C17_UnknownTypeInList ==
  (Searched({"type"}) /\ Has(lastQuery.type, "arr") /\ KnownTypes(lastQuery.type) # <<>>)
    => lastResult = search(Index, Pruned(lastQuery))

\* C18: every card a query with format F returns is legal in F (its
\* legality map has F, in lower case, with the value true), whatever other
\* filters the query has.
C18_FormatLegality ==
  (called = "search" /\ Has(lastQuery, "format") /\ lastQuery.format # "")
    => \A i \in DOMAIN lastResult :
         /\ "legal_formats" \in DOMAIN lastResult[i]
         /\ toLowerCase(lastQuery.format) \in DOMAIN lastResult[i].legal_formats
         /\ lastResult[i].legal_formats[toLowerCase(lastQuery.format)] = TRUE

\* of a card legal in standard and one whose map lists standard as not
\* legal, the format filter returns the first
C18_Witness ==
  /\ Searched({"format"})
  /\ lastQuery.format = "standard"
  /\ built = <<Opt, SkyImp>>
  /\ Opt.legal_formats.standard = FALSE
  /\ lastResult = <<SkyImp>>

\* a card whose map lacks the format is left out as well
C18_FormatMissing ==
  /\ Searched({"format"})
  /\ lastQuery.format = "standard"
  /\ built = <<ImpLord, Moor>>
  /\ lastResult = <<Moor>>

\* C20: for a query with a list of requested types, a card is returned
\* exactly when every requested type is among its types, subtypes or
\* supertypes: the per-type matches are intersected across the list.
C20_AllRequestedTypes ==
  (Searched({"type"}) /\ Has(lastQuery.type, "arr") /\ lastQuery.type.arr # <<>>)
    => IdSet(lastResult) =
         {built[i].id : i \in {j \in DOMAIN built :
             \A t \in DOMAIN lastQuery.type.arr :
               toLowerCase(lastQuery.type.arr[t]) \in AllTypesOf(built[j])}}

\* C20, as the code has it: a card is returned exactly when some requested
\* type is among its types, subtypes or supertypes.
C20_SomeRequestedType ==
  (Searched({"type"}) /\ Has(lastQuery.type, "arr"))
    => IdSet(lastResult) =
         {built[i].id : i \in {j \in DOMAIN built :
             \E t \in DOMAIN lastQuery.type.arr :
               toLowerCase(lastQuery.type.arr[t]) \in AllTypesOf(built[j])}}

----------------------------------------------------------------------------
(* Properties of the RandomQueryGenerator *)

\* C19: between two resets no query is returned twice, by generate or in
\* the arrays of generateMultiple; every returned query is recorded, and
\* getGeneratedCount is the number of queries returned since the reset.
C19_UniqueQueries ==
  /\ \A i, j \in DOMAIN issued : i # j => issued[i] # issued[j]
  /\ \A i \in DOMAIN issued : hasGenerated(issued[i])
  /\ getGeneratedCount = Len(issued)
  /\ called = "generateMultiple" => Len(lastResult) <= lastQuery.count

\* generate found only recorded queries in all its passes and returned
\* null, after two queries had been returned
C19_Witness ==
  /\ called = "generate"
  /\ lastResult = <<>>
  /\ Len(issued) = 2
  /\ getGeneratedCount = 2

\* generateMultiple stopped short of its count
C19_ShortArray ==
  /\ called = "generateMultiple"
  /\ lastQuery.count = 2
  /\ Len(lastResult) = 1
  /\ Len(issued) = 2

----------------------------------------------------------------------------
(* Properties of the size of a generated deck *)

\* C21: in every deck generateRandomDeck returns, the counts of the entries
\* sum to at most the target deck size.
C21_DeckSizeBound ==
  GeneratedNow =>
    SumCounts(returned.deck, DOMAIN returned.deck) <= returned.constraints.deckSize

\* what the loops do keep: the non-land loop adds no card once the total
\* has reached the deck size, so a deck without mustInclude cards and with
\* maxLands within the deck size ends less than maxCopies above it
C21_OvershootBelowMaxCopies ==
  (/\ GeneratedNow
   /\ returned.constraints.mustInclude = <<>>
   /\ returned.constraints.minLands <= returned.constraints.maxLands
   /\ returned.constraints.maxLands <= returned.constraints.deckSize)
    => SumCounts(returned.deck, DOMAIN returned.deck)
         < returned.constraints.deckSize
             + (IF returned.constraints.maxCopies > 1 THEN returned.constraints.maxCopies
                ELSE 1)

\* one card of the pool, rolled twice over, in a deck of size 1
C21_Overfull ==
  /\ RandomDeckReturned
  /\ returned.constraints.deckSize = 1
  /\ returned.constraints.maxCopies = 2
  /\ returned.constraints.maxLands = 0
  /\ returned.deck = <<[card |-> Opt, count |-> 2]>>

----------------------------------------------------------------------------
(* Properties of the text filter *)

\* the words of a text: lower-cased, split at blanks and punctuation, of
\* two characters or more
WordsOf(text) == Range(tokenize(text))

\* the cards of the built array whose rules text has the word
CardsWithWord(word) ==
  {built[i].id : i \in {j \in DOMAIN built : word \in WordsOf(OracleTextOf(built[j]))}}

\* the ids every one of the words has, and the ids some word has
WithAllWords(words) == {id \in IdSet(built) : \A w \in words : id \in CardsWithWord(w)}
WithSomeWord(words) == {id \in IdSet(built) : \E w \in words : id \in CardsWithWord(w)}

\* C22, as stated: the result of a text query is the union over the words
\* other than "or" when the text has the word "or", and the intersection
\* over all its words otherwise.
C22_AsStated ==
  Searched({"text"}) =>
    LET words == WordsOf(lastQuery.text)
    IN  IdSet(lastResult) =
          IF words = {} THEN {}
          ELSE IF <<"o", "r">> \in words THEN WithSomeWord(words \ {<<"o", "r">>})
          ELSE WithAllWords(words)

\* C22, amended: the words "or" and "and" are left out; the result is the
\* union over the other words when the lower-cased text has " or " with a
\* blank on either side, and the intersection over them otherwise; no other
\* word gives the empty result.
C22_TextFilter ==
  Searched({"text"}) =>
    LET words == WordsOf(lastQuery.text) \ {<<"o", "r">>, <<"a", "n", "d">>}
    IN  IdSet(lastResult) =
          IF words = {} THEN {}
          ELSE IF Includes(LowerSeq(lastQuery.text), <<" ", "o", "r", " ">>)
               THEN WithSomeWord(words)
          ELSE WithAllWords(words)

\* "card OR flying" found the cards of either word
C22_Witness ==
  /\ Searched({"text"})
  /\ lastQuery.text = <<"c", "a", "r", "d", " ", "O", "R", " ", "f", "l", "y", "i", "n", "g">>
  /\ built = <<SkyImp, Opt>>
  /\ IdSet(lastResult) = {1, 2}

\* "flying and draw" found the one card that has both words, none having
\* the word "and"
C22_AndDropped ==
  /\ Searched({"text"})
  /\ lastQuery.text
       = <<"f", "l", "y", "i", "n", "g", " ", "a", "n", "d", " ", "d", "r", "a", "w">>
  /\ built = <<SkyImp, ImpLord>>
  /\ IdSet(lastResult) = {4}

\* "card flying or" was intersected: the text ends with the word
C22_OrAtTheEnd ==
  /\ Searched({"text"})
  /\ lastQuery.text = <<"c", "a", "r", "d", " ", "f", "l", "y", "i", "n", "g", " ", "o", "r">>
  /\ built = <<SkyImp, Opt>>
  /\ lastResult = <<>>

----------------------------------------------------------------------------
(* Properties of the MTGO export *)

\* exportDeck(deck, 'mtgo') has returned
MtgoExported == called = "exportDeck"

\* the line is '<count> <name>' of the entry
LineOf(line, entry) ==
  LET k == LeadingDigits(line)
  IN  /\ k > 0
      /\ Len(line) > k
      /\ line[k + 1] = " "
      /\ ReadNumber(SubSeq(line, 1, k)) = entry.count
      /\ SubSeq(line, k + 2, Len(line)) = entry.card.name

\* lines, from position first on, are the lines of the entries in order
LinesOf(lines, first, entries) ==
  /\ Len(lines) = first - 1 + Len(entries)
  /\ \A i \in DOMAIN entries : LineOf(lines[first - 1 + i], entries[i])

\* the entries a deck has in its main board and in its sideboard
MainOf(deck) == SelectSeq(deck, LAMBDA e : ~(Has(e, "isSideboard") /\ e.isSideboard = TRUE))
SideOf(deck) == SelectSeq(deck, LAMBDA e : Has(e, "isSideboard") /\ e.isSideboard = TRUE)

\* the text has the lines of the main board, a blank line, the line
\* 'Sideboard' and the lines of the sideboard
WithSideboardSection(text, deck) ==
  LET lines == SplitLines(text, <<>>)
      n == Len(MainOf(deck))
  IN  /\ Len(lines) >= n + 2
      /\ LinesOf(SubSeq(lines, 1, n), 1, MainOf(deck))
      /\ lines[n + 1] = <<>>
      /\ lines[n + 2] = <<"S", "i", "d", "e", "b", "o", "a", "r", "d">>
      /\ LinesOf(lines, n + 3, SideOf(deck))

\* C23, as stated: the export is the main-board lines, a blank line, the
\* line 'Sideboard' and the sideboard lines, for every deck.
C23_AsStated ==
  MtgoExported => WithSideboardSection(lastResult, lastQuery.deck)

\* C23, amended: the blank line, the line 'Sideboard' and the sideboard
\* lines follow the main-board lines when some entry is flagged
\* isSideboard; with no entry flagged the export is the main-board lines
\* alone (the empty text for an empty deck).
C23_MtgoExport ==
  MtgoExported =>
    LET deck == lastQuery.deck
    IN  IF SideOf(deck) # <<>> THEN WithSideboardSection(lastResult, deck)
        ELSE IF deck = <<>> THEN lastResult = <<>>
        ELSE LinesOf(SplitLines(lastResult, <<>>), 1, deck)

\* a sideboard entry listed before a main-board entry is printed after it
C23_Witness ==
  /\ MtgoExported
  /\ lastQuery.deck = <<[card |-> Moor, count |-> 12, isSideboard |-> TRUE],
                        [card |-> SkyImp, count |-> 1]>>
  /\ SplitLines(lastResult, <<>>)
       = <<<<"1", " ">> \o SkyImp.name, <<>>,
           <<"S", "i", "d", "e", "b", "o", "a", "r", "d">>,
           <<"1", "2", " ">> \o Moor.name>>

\* a deck without sideboard entries is exported without the marker
C23_NoSideboard ==
  /\ MtgoExported
  /\ lastQuery.deck = <<[card |-> SkyImp, count |-> 1]>>
  /\ lastResult = <<"1", " ">> \o SkyImp.name

----------------------------------------------------------------------------
(* Properties of the sampler's state *)

\* the names the running call can count: those of its candidates and those
\* its counters hold
CountedNames ==
  {gen.lands[i].name : i \in DOMAIN gen.lands}
    \cup {gen.nonLands[i].name : i \in DOMAIN gen.nonLands}
    \cup DOMAIN gen.currentDeck.cardCounts

\* the counters of the running call count the entries of its own deck
OwnCounters ==
  /\ \A name \in CountedNames :
       GetOrZero(gen.currentDeck.cardCounts, name) = NameCount(gen.deck, name)
  /\ GetOrZero(gen.currentDeck.byCategory, "land") = LandCount(gen.deck)
  /\ gen.currentDeck.nonLandCount
       = SumCounts(gen.deck, DOMAIN gen.deck) - LandCount(gen.deck)

\* a step of the generator leaves the index and its card records as they
\* are; inside a generateMultiple call it leaves the candidate array and
\* the decks pushed so far as they are
SamplerStep ==
  /\ UNCHANGED <<cards, textIndex, fieldIndices>>
  /\ (multi # <<>> /\ multi' # <<>>) =>
       /\ multi'[1].candidates = multi[1].candidates
       /\ multi[1].candidates = search(Index, multi[1].query)
       /\ Len(multi'[1].decks) >= Len(multi[1].decks)
       /\ SubSeq(multi'[1].decks, 1, Len(multi[1].decks)) = multi[1].decks
  /\ (pc # "mustInclude" /\ pc' = "mustInclude") =>
       /\ gen'.deck = <<>>
       /\ gen'.currentDeck = EmptyCurrentDeck

\* C24: generateRandomDeck and generateMultiple leave the index, the
\* candidate array and the card records unchanged; each deck starts empty
\* with zero counters, so the counters of a call only ever count that
\* call's own deck; a deck that was pushed is not changed by the next.
C24_SamplerIndependence == []OwnCounters /\ [][SamplerStep]_vars

\* the second deck of a batch has a card at maxCopies that the first deck
\* has at maxCopies too
C24_Witness ==
  /\ MultipleReturned
  /\ Len(returned.decks) = 2
  /\ returned.decks[1].constraints.maxCopies = 2
  /\ \E i \in DOMAIN returned.decks[1].deck, j \in DOMAIN returned.decks[2].deck :
       /\ returned.decks[1].deck[i].card = SkyImp
       /\ returned.decks[2].deck[j].card = SkyImp
       /\ returned.decks[1].deck[i].count = 2
       /\ returned.decks[2].deck[j].count = 2

----------------------------------------------------------------------------
(* Properties of streamProcess *)

\* the call has been made, and the call has returned
StreamCalled == stream.pc # "idle"
StreamReturned == stream.pc = "done"

\* the arrays of the batches so far, one after the other
RECURSIVE Concatenated(_)
Concatenated(bs) == IF bs = <<>> THEN <<>> ELSE Head(bs).normalized \o Concatenated(Tail(bs))

\* what a card is normalized to, as the claim's cases need it: the id and
\* oracle id kept, absent colours an empty list, legalities as booleans
IsNormalized(n, card) ==
  /\ n.id = card.id
  /\ Has(n, "oracle_id") = Has(card, "oracle_id")
  /\ Has(card, "oracle_id") => n.oracle_id = card.oracle_id
  /\ n.colors = (IF "colors" \in DOMAIN card THEN card.colors ELSE <<>>)
  /\ DOMAIN n.legal_formats = (IF "legalities" \in DOMAIN card THEN DOMAIN card.legalities
                               ELSE {})

\* the batches so far are consecutive pieces of the input, in order, of
\* batchSize cards each but for the last one; onBatch got each with its
\* offset and the length of the input; every card of them was normalized
\* once
BatchesInOrder ==
  LET all == Concatenated(batches)
  IN  /\ Len(all) <= Len(stream.cards)
      /\ \A k \in DOMAIN all : IsNormalized(all[k], stream.cards[k])
      /\ \A b \in DOMAIN batches :
           /\ batches[b].i = (b - 1) * stream.batchSize
           /\ batches[b].total = Len(stream.cards)
           /\ Len(batches[b].normalized) <= stream.batchSize
           /\ Len(batches[b].normalized) = stream.batchSize
                \/ (b = Len(batches) /\ Len(all) = Len(stream.cards))
      /\ \A o \in DOMAIN oracleIndex :
           Len(oracleIndex[o])
             = Cardinality({k \in DOMAIN all : Has(all[k], "oracle_id") /\ all[k].oracle_id = o})

\* between two batches the event loop had its turn: every task that was
\* queued when a batch was handed over has run before the next batch
YieldsBetweenBatches ==
  \A b \in DOMAIN sched.atBatch :
    b > 1 => sched.atBatch[b].ran >= sched.atBatch[b - 1].queued

\* a returned call has normalized the whole input in ceil(n / batchSize)
\* batches
AllInBatches ==
  StreamReturned =>
    /\ Len(Concatenated(batches)) = Len(stream.cards)
    /\ Len(batches) * stream.batchSize >= Len(stream.cards)
    /\ Len(stream.cards) > (Len(batches) - 1) * stream.batchSize \/ batches = <<>>

C25_EmptyBatches ==
  /\ stream.batchSize = 0
  /\ Len(stream.cards) = 1
  /\ Len(batches) = 2
  /\ batches[1].normalized = <<>>
  /\ batches[2].normalized = <<>>

----------------------------------------------------------------------------
(* Properties of generateRandomDeck for a format the table lacks *)

\* generateRandomDeck has returned for constraints naming only a format, and
\* the format table has no entry for it
UnknownFormatDeck ==
  /\ RandomDeckReturned
  /\ multi = <<>>
  /\ returned.constraints.format # ""
  /\ toLowerCase(returned.constraints.format) \notin DOMAIN formatConfigs

\* the candidates of the call that has returned
CandidatesOf(g) == Range(g.lands) \cup Range(g.nonLands)

C26_EmptyDeck ==
  /\ UnknownFormatDeck
  /\ Cardinality(CandidatesOf(gen)) = MaxCards
  /\ returned.deck = <<>>
  /\ returned.stats.totalCards = 0

----------------------------------------------------------------------------
(* Properties of the index after buildIndex and clear *)

\* the record has the value v for the field, as indexCard posts it
HasValue(card, field, v) ==
  CASE field = "name" -> v \in Range(tokenize(card.name))
    [] field = "type" -> v \in Range(card.parsed_types.types)
    [] field = "supertype" -> v \in Range(card.parsed_types.supertypes)
    [] field = "subtype" -> v \in Range(card.parsed_types.subtypes)
    [] field = "color" ->
         IF card.colors = <<>> THEN v = "c"
         ELSE \E i \in DOMAIN card.colors : v = LowerChar(card.colors[i])
    [] field = "colorIdentity" ->
         IF card.color_identity = <<>> THEN v = "c"
         ELSE \E i \in DOMAIN card.color_identity : v = LowerChar(card.color_identity[i])
    [] field = "rarity" -> "rarity" \in DOMAIN card /\ v = card.rarity
    [] field = "set" -> "set" \in DOMAIN card /\ v = toLowerCase(card.set)
    [] field = "keyword" -> \E i \in DOMAIN card.keywords : v = toLowerCase(card.keywords[i])
    [] field = "format" ->
         /\ "legal_formats" \in DOMAIN card
         /\ v \in DOMAIN card.legal_formats
         /\ card.legal_formats[v]
    [] field = "artist" -> "artist" \in DOMAIN card /\ v = LowerSeq(card.artist)
    [] field = "manaValue" -> "cmc" \in DOMAIN card /\ v = NumToString(card.cmc)
    [] field = "power" -> "power" \in DOMAIN card /\ v = card.power
    [] field = "toughness" -> "toughness" \in DOMAIN card /\ v = card.toughness
    [] OTHER -> FALSE

\* every id of a posting set is a key of cards
PostedIdsStored ==
  /\ \A field \in DOMAIN fieldIndices : \A v \in DOMAIN fieldIndices[field] :
       Range(fieldIndices[field][v]) \subseteq Range(cards.keys)
  /\ \A token \in DOMAIN textIndex : Range(textIndex[token]) \subseteq Range(cards.keys)

\* every posting agrees with the record stored under the id
PostingsAgree ==
  /\ \A field \in DOMAIN fieldIndices : \A v \in DOMAIN fieldIndices[field] :
       \A id \in Range(fieldIndices[field][v]) :
         id \in DOMAIN cards.at => HasValue(cards.at[id], field, v)
  /\ \A token \in DOMAIN textIndex : \A id \in Range(textIndex[token]) :
       id \in DOMAIN cards.at => token \in Range(tokenize(OracleTextOf(cards.at[id])))

\* the record stored under an id is the last one of the array with that id
LastRecordStored ==
  /\ Range(cards.keys) = {built[i].id : i \in DOMAIN built}
  /\ \A i \in DOMAIN built :
       (\A j \in DOMAIN built : j > i => built[j].id # built[i].id)
         => cards.at[built[i].id] = built[i]

\* the array the index was built from repeats no id
DistinctIds == \A i, j \in DOMAIN built : i # j => built[i].id # built[j].id

C27_ConsistentForDistinctIds ==
  /\ PostedIdsStored
  /\ LastRecordStored
  /\ DistinctIds => PostingsAgree

\* the index built from [Opt of M21, Opt of ZNR under the same id]: the
\* ZNR record is stored, and the posting of m21 still holds its id
C27_StalePosting ==
  /\ built = <<Opt, OptErrata>>
  /\ cards.at[Opt.id] = OptErrata
  /\ Opt.id \in Range(fieldIndices.set["m21"])
  /\ Opt.id \in Range(fieldIndices.set["znr"])

----------------------------------------------------------------------------
(* Properties of search as a reader of the index *)

\* a step that is a call of search
SearchStep == called' = "search"

\* the postings the filters of the query take from the index as they are
PostingsTaken(query) ==
  (IF TruthyString(query, "set") THEN {<<"set", toLowerCase(query.set)>>} ELSE {})
  \cup (IF TruthyString(query, "format") THEN {<<"format", toLowerCase(query.format)>>}
        ELSE {})
  \cup (IF TruthyList(query, "keyword")
        THEN {<<"keyword", toLowerCase(AsArray(query.keyword)[i])>> :
                i \in DOMAIN AsArray(query.keyword)}
        ELSE {})

\* C28: a call of search leaves cards, textIndex and every posting set of
\* fieldIndices as they were, the posting sets the set, format and keyword
\* filters take as the running result included; and the query of the call,
\* made again on the index, returns the same cards.
C28_SearchReadOnly ==
  /\ [][SearchStep => (cards' = cards /\ textIndex' = textIndex
                         /\ fieldIndices' = fieldIndices)]_vars
  /\ [](called = "search" => search(Index, lastQuery) = lastResult)

\* a search by two keywords and nothing else: the posting of the first
\* keyword was the running result, the second narrowed it, and the posting
\* still has the ids the result lacks
C28_Witness ==
  /\ called = "search"
  /\ DOMAIN lastQuery = {"keyword"}
  /\ Cardinality(PostingsTaken(lastQuery)) = 2
  /\ lastResult # <<>>
  /\ \E p \in PostingsTaken(lastQuery) :
       /\ p[2] \in DOMAIN fieldIndices[p[1]]
       /\ Len(fieldIndices[p[1]][p[2]]) > Len(lastResult)

----------------------------------------------------------------------------
(* Properties of the pagination of search *)

\* the query without its offset
WithoutOffset(query) == [k \in DOMAIN query \ {"offset"} |-> query[k]]

\* search was called with an offset and no limit
OffsetAlone == called = "search" /\ Has(lastQuery, "offset") /\ ~Has(lastQuery, "limit")

\* C29: a query that supplies offset but no limit returns the list the same
\* query returns without the offset: no record is skipped.
C29_OffsetNeedsLimit ==
  OffsetAlone => lastResult = search(Index, WithoutOffset(lastQuery))

\* offset 2 without limit on an index of three cards, sorted by name: all
\* three are returned
C29_Witness ==
  /\ OffsetAlone
  /\ lastQuery.offset = 2
  /\ Has(lastQuery, "sortBy")
  /\ Len(lastResult) = Len(cards.keys)
  /\ Len(lastResult) > 1

\* with a limit the offset skips records
C29_OffsetWithLimit ==
  /\ called = "search"
  /\ Has(lastQuery, "offset") /\ Has(lastQuery, "limit")
  /\ lastQuery.offset = 1 /\ lastQuery.limit = 1
  /\ Len(lastResult) = 1
  /\ lastResult # search(Index, WithoutOffset(lastQuery))

----------------------------------------------------------------------------
(* Properties of generateCommanderDeck for colourless cards *)

\* generateCommanderDeck has returned for a commander with a colour identity
ColouredCommanderDeck == CommanderDeckReturned /\ IdentityOf(returned.commander) # {}

\* the cards of the index without a colour identity that the format, the ban
\* list and the mana value limit of the constraints allow
ColourlessAllowed(constraints) ==
  {c \in Range(built) :
     /\ c.color_identity = <<>>
     /\ c.oracle_id # returned.commander.oracle_id
     /\ c.name \notin Range(constraints.bannedCards)
     /\ Has(c, "legal_formats") => (Has(c.legal_formats, constraints.format)
                                     /\ c.legal_formats[constraints.format])
     /\ Has(constraints, "maxManaValue") => c.cmc <= constraints.maxManaValue}

\* C30: for a commander with a non-empty colour identity, no card of the
\* deck generateCommanderDeck returns has an empty colour identity, the pool
\* query colorIdentity <= identity leaving such cards out; isCardValid
\* accepts each of them under the constraints of the same call.
C30_ColourlessLeftOut ==
  ColouredCommanderDeck =>
    /\ \A i \in DOMAIN returned.deck : returned.deck[i].card.color_identity # <<>>
    /\ \A c \in ColourlessAllowed(returned.constraints) :
         /\ c \notin CandidatesOf(gen)
         /\ isCardValid(c, returned.constraints, EmptyCurrentDeck)

\* a deck for Imp Lord from the index that holds Moor, a basic land without
\* colour identity that is legal in commander: Isle is in the deck, Moor is
\* not, and isCardValid accepts Moor
C30_Witness ==
  /\ ColouredCommanderDeck
  /\ returned.commander = ImpLord
  /\ Moor \in ColourlessAllowed(returned.constraints)
  /\ isCardValid(Moor, returned.constraints, EmptyCurrentDeck)
  /\ \E i \in DOMAIN returned.deck : returned.deck[i].card = Isle
  /\ \A i \in DOMAIN returned.deck : returned.deck[i].card # Moor

====
